---- MODULE Spec2Model ----
(***************************************************************************)
(* Model of the session-and-streaming backend (src/backend/main.py):       *)
(* the session store (login, verify_session, the websocket handshake),     *)
(* the per-session chat history, and the message loop of                   *)
(* websocket_endpoint with its stream reconciliation.                      *)
(*                                                                         *)
(* Text is modelled as a sequence of characters over Alphabet, so that     *)
(* startswith, slicing and concatenation are computed, not assumed.        *)
(* Time is in whole seconds. A send to a client that has disconnected      *)
(* raises. Spec is the program from start-up; SpecStream and SpecTurn are  *)
(* the message loop from its entry; SpecHistory is add_to_chat_history     *)
(* under every sequence of calls; SpecGauge is two connections from        *)
(* accept to the end of their handlers; SpecRace is two connections that   *)
(* authenticate with one session id while time passes; SpecPair is the     *)
(* message loop of two connections of one session; SpecExpiry is the       *)
(* message loop while the session record expires; SpecContext is           *)
(* get_chat_history_context over histories with contents around the        *)
(* 200-character cut.                                                      *)
(*                                                                         *)
(* The module also models mcp_client.MCPClient (SpecMcp: every sequence    *)
(* of calls against every answer of the server), ai_provider.get_ai_model  *)
(* (SpecModel: every configuration) and the extraction of sources from     *)
(* the tool calls of a turn (SpecSources). HTTP bodies, JSON values and    *)
(* tool results are finite sets of shapes on which the code's tests        *)
(* (status, content type, keys, types) are computed.                       *)
(***************************************************************************)
EXTENDS Integers, Sequences, FiniteSets, TLC

(* ------------------------------------------------------------------ *)
(* Bounds of the model                                                 *)
(* ------------------------------------------------------------------ *)
MaxFrags == 3
MaxFragLen == 2
MaxSends == 2
MaxTurnFrags == 3
MaxAppends == 11
MaxTicks == 2

(* ------------------------------------------------------------------ *)
(* Program constants                                                   *)
(* ------------------------------------------------------------------ *)
MAX_CHAT_HISTORY == 10
SESSION_TTL == 3600
POLICY_VIOLATION == 1008

Alphabet == {"a", "b"}
Conns == {"c1", "c2"}
SessionIds == {"s1", "s2"}
NoSid == "none"

(* The JSON value of a session record; NoData stands for redis' nil. *)
SessionData(sid, created, last) ==
    [session_id |-> sid, created_at |-> created, last_activity |-> last]
NoData == SessionData(NoSid, 0, 0)
NoRecord == [data |-> NoData, expires |-> 0]

StringsUpTo(n) == UNION {[1..k -> Alphabet] : k \in 0..n}

(* str.startswith *)
StartsWith(s, p) == Len(p) <= Len(s) /\ SubSeq(s, 1, Len(p)) = p

(* s[n:] *)
SliceFrom(s, n) == SubSeq(s, n + 1, Len(s))

(* s[-n:] for n > 0 *)
LastN(s, n) == IF Len(s) <= n THEN s ELSE SubSeq(s, Len(s) - n + 1, Len(s))

RECURSIVE Concat(_)
Concat(ss) == IF ss = <<>> THEN <<>> ELSE Head(ss) \o Concat(Tail(ss))

(* ------------------------------------------------------------------ *)
(* State                                                               *)
(* ------------------------------------------------------------------ *)
VARIABLES
    now,                    \* time.time(), in seconds
    ticks,                  \* number of clock advances so far
    store,                  \* redis: session id -> record with its expiry time
    lastOp,                 \* the most recent operation and its outcome
    lastWrite,              \* per session: time of the most recent setex, -1 if none
    pc,                     \* per connection: position of websocket_endpoint
    clientGone,             \* per connection: the client has disconnected
    inbox,                  \* per connection: messages sent, not yet received
    sent,                   \* number of messages clients have sent
    received,               \* per connection: number of messages received
    session_id,             \* per connection: local session_id
    session_data,           \* per connection: local session_data
    events,                 \* per connection: events sent since its last inbound message
    closeCode,              \* per connection: code of websocket.close, 0 if none
    ACTIVE_WEBSOCKETS,
    WEBSOCKET_CONNECTIONS,
    AI_PROVIDER_ERRORS,
    MESSAGES_PROCESSED,
    session_chat_history,   \* dict: session id -> list of turns
    session_tool_calls,     \* dict: session id -> list
    appended,               \* per session: every turn ever appended, in order
    chunk_count,            \* per connection: locals of the current turn
    response_id,
    previous_content,
    full_response,
    frags,                  \* per connection: fragments the backend produced, and
    deltas,                 \*   the delta computed for each, and
    warnings,               \*   the chunk numbers logged as non-cumulative,
                            \*   all three since its last inbound message
    nextRid,                \* number of response ids drawn (uuid4 never repeats)
    turnRids,               \* the response id of every turn started, in order
    logged,                 \* per connection: the logger.error calls of the loop
                            \*   since its last inbound message
    memory_context,         \* per connection: local memory_context
    settings,               \* config.settings
    mcp_client,             \* the MCPClient instance: base_url, client, _initialized
    mcpReturn,              \* the most recent MCPClient call and how it ended
    aiModel,                \* the most recent get_ai_model call and how it ended
    tool_calls,             \* final_data.tool_calls handed to the source extraction
    sources_list            \* the source extraction's sources_list, and how it ended

storeVars == <<now, ticks, store, lastOp, lastWrite>>
connVars == <<pc, clientGone, inbox, sent, received, session_id, session_data,
              events, closeCode>>
metricVars == <<ACTIVE_WEBSOCKETS, WEBSOCKET_CONNECTIONS, AI_PROVIDER_ERRORS,
                MESSAGES_PROCESSED>>
memoryVars == <<session_chat_history, session_tool_calls, appended>>
turnLocals == <<chunk_count, response_id, previous_content, full_response,
                frags, deltas, warnings, nextRid, turnRids>>
turnVars == <<turnLocals, logged, memory_context>>
gatewayVars == <<settings, mcp_client, mcpReturn, aiModel, tool_calls, sources_list>>
vars == <<storeVars, connVars, metricVars, memoryVars, turnVars, gatewayVars>>

(* ------------------------------------------------------------------ *)
(* Wire messages                                                       *)
(* ------------------------------------------------------------------ *)
Absent == <<"absent">>

(* An inbound JSON object: each of the two keys may be absent. *)
AuthMessages == [session_id : SessionIds \cup {NoSid, ""}, message : {Absent}]
ChatMessages == [session_id : {NoSid}, message : {<<>>, <<"a">>}]
ClientMessages == AuthMessages \cup {m \in ChatMessages : m.message /= <<>>}

(* The messages of a client after the handshake: the message key holds a
   text, holds "", or is absent. *)
LoopMessages == ChatMessages \cup {[session_id |-> NoSid, message |-> Absent]}

(* Faulty variant: data["message"] taken as it is, without the default. *)
GetMessageNoDefault(data) == data.message

(* data.get("message", "") *)
GetMessage(data) == IF data.message = Absent THEN <<>> ELSE data.message

(* auth_data.get("session_id") is falsy: the key is absent or holds "" *)
MissingSessionId(data) == data.session_id = NoSid \/ data.session_id = ""

Event(type, content, cid, rid, turn) ==
    [type |-> type, content |-> content, chunk_id |-> cid, response_id |-> rid,
     turn |-> turn]

AuthSuccess == Event("auth_success", <<>>, 0, 0, 0)
ErrorEvent(turn) == Event("error", <<>>, 0, 0, turn)
DoneEvent(turn) == Event("done", <<>>, 0, 0, turn)

(* ------------------------------------------------------------------ *)
(* Conversation memory                                                 *)
(* ------------------------------------------------------------------ *)
Turn(role, content, t) == [role |-> role, content |-> content, timestamp |-> t]

(* Faulty variant: the trim keeps the oldest turns, list[:MAX]. *)
TrimHistoryHead(h) ==
    IF Len(h) > MAX_CHAT_HISTORY THEN SubSeq(h, 1, MAX_CHAT_HISTORY) ELSE h

(* The list after the append and the trim of add_to_chat_history. *)
TrimHistory(h) == IF Len(h) > MAX_CHAT_HISTORY THEN LastN(h, MAX_CHAT_HISTORY) ELSE h

add_to_chat_history(hist, sid, role, content, t) ==
    LET old == IF sid \in DOMAIN hist THEN hist[sid] ELSE <<>>
        new == TrimHistory(Append(old, Turn(role, content, t)))
    IN  [s \in (DOMAIN hist) \cup {sid} |-> IF s = sid THEN new ELSE hist[s]]

(* The most characters of a turn's content that the context shows. *)
ContextChars == 200

(* Faulty variant: a content of exactly ContextChars characters is cut too. *)
ContextContentFrom(content) ==
    IF Len(content) >= ContextChars
    THEN SubSeq(content, 1, ContextChars) \o <<".", ".", ".">>
    ELSE content

(* msg["content"][:200] + "..." if len(msg["content"]) > 200 else msg["content"] *)
ContextContent(content) ==
    IF Len(content) > ContextChars
    THEN SubSeq(content, 1, ContextChars) \o <<".", ".", ".">>
    ELSE content

(* f"{role}: {content}" *)
ContextLine(msg) ==
    (IF msg.role = "user"
     THEN <<"U", "s", "e", "r">>
     ELSE <<"A", "s", "s", "i", "s", "t", "a", "n", "t">>)
    \o <<":", " ">> \o ContextContent(msg.content)

(* "\n".join(lines) *)
RECURSIVE JoinLines(_)
JoinLines(lines) ==
    IF lines = <<>> THEN <<>>
    ELSE IF Len(lines) = 1 THEN lines[1]
    ELSE lines[1] \o <<"\n">> \o JoinLines(Tail(lines))

get_chat_history_context(hist, sid) ==
    IF sid \notin DOMAIN hist \/ hist[sid] = <<>> THEN <<>>
    ELSE JoinLines([i \in 1..Len(hist[sid]) |-> ContextLine(hist[sid][i])])

(* ------------------------------------------------------------------ *)
(* Stream reconciliation                                               *)
(* ------------------------------------------------------------------ *)
(* Faulty variant: the cumulative prefix is never removed. *)
ComputeDeltaNoStrip(prev, cur) == cur

(* Faulty variant: a non-cumulative fragment is dropped. *)
ComputeDeltaDropAnomaly(prev, cur) ==
    IF prev = <<>> THEN cur
    ELSE IF StartsWith(cur, prev) THEN SliceFrom(cur, Len(prev))
    ELSE <<>>

(* The delta of one fragment, given the previous fragment of the turn. *)
ComputeDelta(prev, cur) ==
    IF prev = <<>> THEN cur
    ELSE IF StartsWith(cur, prev) THEN SliceFrom(cur, Len(prev))
    ELSE cur

(* The fragment takes the warning branch. *)
NonCumulative(prev, cur) == prev /= <<>> /\ ~StartsWith(cur, prev)

(* Faulty variant: every delta is sent. *)
ShouldSendAlways(delta) == TRUE

(* if delta: *)
ShouldSend(delta) == delta /= <<>>

(* Faulty variant: previous_content is not cleared at the start of a turn. *)
TurnStartPreviousKept(prev) == prev

(* previous_content = "" at the start of a turn *)
TurnStartPrevious(prev) == <<>>

MaxPairFrags == 1

(* Faulty variant: the response kept is the last delta. *)
AccumulateLast(full, delta) == delta

(* full_response += delta *)
Accumulate(full, delta) == full \o delta

(* Faulty variant: the sources event reuses the last chunk number. *)
SourcesChunkIdSame(count) == count

(* chunk_count + 1 *)
SourcesChunkId(count) == count + 1

(* ------------------------------------------------------------------ *)
(* The clients                                                         *)
(* ------------------------------------------------------------------ *)
(* A connected client sends one more message; limit bounds the run. *)
ClientSend(c, m, limit) ==
    /\ pc[c] \notin {"new", "closed"}
    /\ ~clientGone[c]
    /\ sent < limit
    /\ inbox' = [inbox EXCEPT ![c] = Append(@, m)]
    /\ sent' = sent + 1
    /\ UNCHANGED <<pc, clientGone, received, session_id, session_data, events, closeCode>>
    /\ UNCHANGED <<storeVars, metricVars, memoryVars, turnVars>>
    /\ UNCHANGED gatewayVars

ClientDisconnect(c) ==
    /\ pc[c] \notin {"new", "closed"}
    /\ ~clientGone[c]
    /\ clientGone' = [clientGone EXCEPT ![c] = TRUE]
    /\ UNCHANGED <<pc, inbox, sent, received, session_id, session_data, events, closeCode>>
    /\ UNCHANGED <<storeVars, metricVars, memoryVars, turnVars>>
    /\ UNCHANGED gatewayVars

(* ------------------------------------------------------------------ *)
(* websocket_endpoint: the message loop                                *)
(* ------------------------------------------------------------------ *)
(* Faulty variant: a failed turn ends the handler. *)
TurnFailedCloses(c, turn) ==
    /\ AI_PROVIDER_ERRORS' = AI_PROVIDER_ERRORS + 1
    /\ logged' = [logged EXCEPT ![c] = @ \cup {"turn"}]
    /\ pc' = [pc EXCEPT ![c] = "closed"]
    /\ ACTIVE_WEBSOCKETS' = ACTIVE_WEBSOCKETS - 1
    /\ UNCHANGED events

(* Faulty variant: a failing send of the error event is swallowed and the
   loop goes on. *)
TurnFailedSwallows(c, turn) ==
    /\ AI_PROVIDER_ERRORS' = AI_PROVIDER_ERRORS + 1
    /\ logged' = [logged EXCEPT ![c] = @ \cup {"turn"}]
    /\ pc' = [pc EXCEPT ![c] = "idle"]
    /\ events' = [events EXCEPT
                    ![c] = IF clientGone[c] THEN @ ELSE Append(@, ErrorEvent(turn))]
    /\ UNCHANGED ACTIVE_WEBSOCKETS

(* The handler of "except Exception" inside the loop: count the error and
   send an error event. When that send raises too (the client is gone) the
   exception leaves the loop and the finally clause runs. *)
TurnFailed(c, turn) ==
    /\ AI_PROVIDER_ERRORS' = AI_PROVIDER_ERRORS + 1
    /\ logged' = [logged EXCEPT ![c] = @ \cup {"turn"}]
    /\ IF clientGone[c]
       THEN /\ pc' = [pc EXCEPT ![c] = "closed"]
            /\ ACTIVE_WEBSOCKETS' = ACTIVE_WEBSOCKETS - 1
            /\ UNCHANGED events
       ELSE /\ pc' = [pc EXCEPT ![c] = "idle"]
            /\ events' = [events EXCEPT ![c] = Append(@, ErrorEvent(turn))]
            /\ UNCHANGED ACTIVE_WEBSOCKETS

(* iter_json ends: the client is gone and nothing is left to read. *)
LoopEnds(c) ==
    /\ pc[c] = "idle"
    /\ inbox[c] = <<>>
    /\ clientGone[c]
    /\ pc' = [pc EXCEPT ![c] = "closed"]
    /\ ACTIVE_WEBSOCKETS' = ACTIVE_WEBSOCKETS - 1
    /\ UNCHANGED <<clientGone, inbox, sent, received, session_id, session_data, events,
                   closeCode>>
    /\ UNCHANGED <<WEBSOCKET_CONNECTIONS, AI_PROVIDER_ERRORS, MESSAGES_PROCESSED>>
    /\ UNCHANGED <<storeVars, memoryVars, turnVars>>
    /\ UNCHANGED gatewayVars

(* One inbound message, up to the first await of its turn. *)
RecvMessage(c) ==
    /\ pc[c] = "idle"
    /\ inbox[c] /= <<>>
    /\ LET data == Head(inbox[c])
           message == GetMessage(data)
           sid == session_id[c]
       IN  /\ inbox' = [inbox EXCEPT ![c] = Tail(@)]
           /\ received' = [received EXCEPT ![c] = @ + 1]
           /\ IF message = <<>>
              THEN \* send the error event; a failing send is a turn failure
                   /\ IF clientGone[c]
                      THEN /\ AI_PROVIDER_ERRORS' = AI_PROVIDER_ERRORS + 1
                           /\ pc' = [pc EXCEPT ![c] = "closed"]
                           /\ ACTIVE_WEBSOCKETS' = ACTIVE_WEBSOCKETS - 1
                           /\ events' = [events EXCEPT ![c] = <<>>]
                           /\ logged' = [logged EXCEPT ![c] = {"turn"}]
                      ELSE /\ events' = [events EXCEPT
                                           ![c] = <<ErrorEvent(received[c] + 1)>>]
                           /\ logged' = [logged EXCEPT ![c] = {}]
                           /\ UNCHANGED <<pc, ACTIVE_WEBSOCKETS, AI_PROVIDER_ERRORS>>
                   /\ frags' = [frags EXCEPT ![c] = <<>>]
                   /\ deltas' = [deltas EXCEPT ![c] = <<>>]
                   /\ warnings' = [warnings EXCEPT ![c] = {}]
                   /\ UNCHANGED <<MESSAGES_PROCESSED, memoryVars, chunk_count, response_id,
                                  previous_content, full_response, nextRid, turnRids,
                                  memory_context>>
              ELSE /\ session_chat_history' =
                          add_to_chat_history(session_chat_history, sid, "user", message, now)
                   /\ appended' = [appended EXCEPT
                                     ![sid] = Append(@, Turn("user", message, now))]
                   /\ MESSAGES_PROCESSED' = MESSAGES_PROCESSED + 1
                   /\ memory_context' =
                          [memory_context EXCEPT
                             ![c] = get_chat_history_context(session_chat_history', sid)]
                   /\ chunk_count' = [chunk_count EXCEPT ![c] = 0]
                   /\ nextRid' = nextRid + 1
                   /\ response_id' = [response_id EXCEPT ![c] = nextRid']
                   /\ previous_content' = [previous_content EXCEPT
                                             ![c] = TurnStartPrevious(@)]
                   /\ full_response' = [full_response EXCEPT ![c] = <<>>]
                   /\ frags' = [frags EXCEPT ![c] = <<>>]
                   /\ deltas' = [deltas EXCEPT ![c] = <<>>]
                   /\ warnings' = [warnings EXCEPT ![c] = {}]
                   /\ turnRids' = Append(turnRids, nextRid')
                   /\ events' = [events EXCEPT ![c] = <<>>]
                   /\ logged' = [logged EXCEPT ![c] = {}]
                   /\ pc' = [pc EXCEPT ![c] = "streaming"]
                   /\ UNCHANGED <<ACTIVE_WEBSOCKETS, AI_PROVIDER_ERRORS,
                                  session_tool_calls>>
    /\ UNCHANGED <<clientGone, sent, session_id, session_data, closeCode,
                   WEBSOCKET_CONNECTIONS>>
    /\ UNCHANGED storeVars
    /\ UNCHANGED gatewayVars

(* The backend yields the fragment cur: one pass of the stream loop. *)
StreamChunk(c, cur, maxFrags) ==
    /\ pc[c] = "streaming"
    /\ Len(frags[c]) < maxFrags
    /\ LET count == chunk_count[c] + 1
           prev == previous_content[c]
           delta == ComputeDelta(prev, cur)
       IN  /\ chunk_count' = [chunk_count EXCEPT ![c] = count]
           /\ warnings' = [warnings EXCEPT
                             ![c] = IF NonCumulative(prev, cur) THEN @ \cup {count} ELSE @]
           /\ previous_content' = [previous_content EXCEPT ![c] = cur]
           /\ full_response' = [full_response EXCEPT ![c] = Accumulate(@, delta)]
           /\ frags' = [frags EXCEPT ![c] = Append(@, cur)]
           /\ deltas' = [deltas EXCEPT ![c] = Append(@, delta)]
           /\ UNCHANGED memory_context
           /\ IF ShouldSend(delta)
              THEN IF clientGone[c]
                   THEN TurnFailed(c, received[c])
                   ELSE /\ events' = [events EXCEPT
                                        ![c] = Append(@, Event("chunk", delta, count,
                                                               response_id[c], received[c]))]
                        /\ UNCHANGED <<pc, ACTIVE_WEBSOCKETS, AI_PROVIDER_ERRORS, logged>>
              ELSE UNCHANGED <<pc, events, ACTIVE_WEBSOCKETS, AI_PROVIDER_ERRORS, logged>>
    /\ UNCHANGED <<clientGone, inbox, sent, received, session_id, session_data, closeCode>>
    /\ UNCHANGED <<WEBSOCKET_CONNECTIONS, MESSAGES_PROCESSED, response_id, nextRid,
                   turnRids>>
    /\ UNCHANGED <<storeVars, memoryVars>>
    /\ UNCHANGED gatewayVars

(* run_stream or the stream raises. *)
(* Faulty variant: a failed stream takes the turn's user message out of
   the history again. *)
StreamFailRollsBack(c) ==
    /\ pc[c] = "streaming"
    /\ TurnFailed(c, received[c])
    /\ session_chat_history' =
           [session_chat_history EXCEPT
              ![session_id[c]] = SubSeq(@, 1, Len(@) - 1)]
    /\ UNCHANGED <<clientGone, inbox, sent, received, session_id, session_data, closeCode>>
    /\ UNCHANGED <<WEBSOCKET_CONNECTIONS, MESSAGES_PROCESSED>>
    /\ UNCHANGED <<storeVars, session_tool_calls, appended, turnLocals, memory_context>>
    /\ UNCHANGED gatewayVars

StreamFail(c) ==
    /\ pc[c] = "streaming"
    /\ TurnFailed(c, received[c])
    /\ UNCHANGED <<clientGone, inbox, sent, received, session_id, session_data, closeCode>>
    /\ UNCHANGED <<WEBSOCKET_CONNECTIONS, MESSAGES_PROCESSED>>
    /\ UNCHANGED <<storeVars, memoryVars, turnLocals, memory_context>>
    /\ UNCHANGED gatewayVars

(* The stream is exhausted: the assistant turn is stored. *)
StreamEnd(c) ==
    /\ pc[c] = "streaming"
    /\ LET sid == session_id[c]
           text == full_response[c]
       IN  IF text /= <<>>
           THEN /\ session_chat_history' =
                       add_to_chat_history(session_chat_history, sid, "assistant", text, now)
                /\ appended' = [appended EXCEPT
                                  ![sid] = Append(@, Turn("assistant", text, now))]
           ELSE UNCHANGED <<session_chat_history, appended>>
    /\ pc' = [pc EXCEPT ![c] = "extract"]
    /\ UNCHANGED <<clientGone, inbox, sent, received, session_id, session_data, events,
                   closeCode>>
    /\ UNCHANGED <<storeVars, metricVars, session_tool_calls, turnVars>>
    /\ UNCHANGED gatewayVars

ExtractionOutcomes == {"none", "sources", "raises"}

(* Faulty variant: an exception of the extraction is not swallowed, it
   fails the turn. *)
ExtractPropagates(c, outcome) ==
    /\ pc[c] = "extract"
    /\ IF outcome = "raises" \/ (outcome = "sources" /\ clientGone[c])
       THEN /\ TurnFailed(c, received[c])
            /\ UNCHANGED <<WEBSOCKET_CONNECTIONS, MESSAGES_PROCESSED>>
       ELSE /\ events' = [events EXCEPT
                            ![c] = IF outcome = "sources"
                                   THEN Append(@, Event("sources", <<>>,
                                                        chunk_count[c] + 1,
                                                        response_id[c], received[c]))
                                   ELSE @]
            /\ pc' = [pc EXCEPT ![c] = "send_done"]
            /\ UNCHANGED <<metricVars, logged>>
    /\ UNCHANGED <<clientGone, inbox, sent, received, session_id, session_data, closeCode>>
    /\ UNCHANGED <<storeVars, memoryVars, turnLocals, memory_context>>
    /\ UNCHANGED gatewayVars

(* The source extraction, with its outcome: no source found, sources
   found, or an exception, which is logged and swallowed, as is a failing
   send of the sources event. *)
Extract(c, outcome) ==
    /\ pc[c] = "extract"
    /\ IF outcome = "sources" /\ ~clientGone[c]
       THEN events' = [events EXCEPT
                         ![c] = Append(@, Event("sources", <<>>,
                                                SourcesChunkId(chunk_count[c]),
                                                response_id[c], received[c]))]
       ELSE UNCHANGED events
    /\ logged' = [logged EXCEPT
                    ![c] = IF outcome = "raises" \/ (outcome = "sources" /\ clientGone[c])
                           THEN @ \cup {"extract"} ELSE @]
    /\ pc' = [pc EXCEPT ![c] = "send_done"]
    /\ UNCHANGED <<clientGone, inbox, sent, received, session_id, session_data, closeCode>>
    /\ UNCHANGED <<storeVars, metricVars, memoryVars, turnLocals, memory_context>>
    /\ UNCHANGED gatewayVars

(* The completion message. *)
(* Faulty variant: the end of a turn refreshes the session record. *)
SendDoneTouches(c) ==
    /\ pc[c] = "send_done"
    /\ IF clientGone[c]
       THEN TurnFailed(c, received[c])
       ELSE /\ events' = [events EXCEPT ![c] = Append(@, DoneEvent(received[c]))]
            /\ pc' = [pc EXCEPT ![c] = "idle"]
            /\ UNCHANGED <<ACTIVE_WEBSOCKETS, AI_PROVIDER_ERRORS, logged>>
    /\ store' = [store EXCEPT ![session_id[c]] =
                    [data |-> [session_id |-> session_id[c], created_at |-> 0,
                               last_activity |-> now],
                     expires |-> now + SESSION_TTL]]
    /\ lastWrite' = [lastWrite EXCEPT ![session_id[c]] = now]
    /\ UNCHANGED <<now, ticks, lastOp>>
    /\ UNCHANGED <<clientGone, inbox, sent, received, session_id, session_data, closeCode>>
    /\ UNCHANGED <<WEBSOCKET_CONNECTIONS, MESSAGES_PROCESSED>>
    /\ UNCHANGED <<memoryVars, turnLocals, memory_context>>
    /\ UNCHANGED gatewayVars

SendDone(c) ==
    /\ pc[c] = "send_done"
    /\ IF clientGone[c]
       THEN TurnFailed(c, received[c])
       ELSE /\ events' = [events EXCEPT ![c] = Append(@, DoneEvent(received[c]))]
            /\ pc' = [pc EXCEPT ![c] = "idle"]
            /\ UNCHANGED <<ACTIVE_WEBSOCKETS, AI_PROVIDER_ERRORS, logged>>
    /\ UNCHANGED <<clientGone, inbox, sent, received, session_id, session_data, closeCode>>
    /\ UNCHANGED <<WEBSOCKET_CONNECTIONS, MESSAGES_PROCESSED>>
    /\ UNCHANGED <<storeVars, memoryVars, turnLocals, memory_context>>
    /\ UNCHANGED gatewayVars

(* ------------------------------------------------------------------ *)
(* The session store (redis)                                           *)
(* ------------------------------------------------------------------ *)
(* GET key at time t: the value, or nil once the key has expired. *)
Get(st, key, t) ==
    IF key \in DOMAIN st /\ st[key] /= NoRecord /\ t < st[key].expires
    THEN st[key].data
    ELSE NoData

(* SETEX key ttl value at time t. *)
Setex(st, key, ttl, value, t) == [st EXCEPT ![key] = [data |-> value, expires |-> t + ttl]]

(* The lifetime login gives a new session record. *)
LoginTtl == SESSION_TTL

(* Faulty variant: the rewrite keeps the lifetime the record had left. *)
TouchTtlRemaining(record, t) == record.expires - t

(* The lifetime the websocket handshake gives the record it rewrites. *)
TouchTtl(record, t) == SESSION_TTL

Op(op, sid, ok) == [op |-> op, sid |-> sid, ok |-> ok]

TickSteps == {1, SESSION_TTL - 1}

(* Time passes; the store drops the keys whose lifetime is over. *)
Tick(d) ==
    /\ ticks < MaxTicks
    /\ ticks' = ticks + 1
    /\ now' = now + d
    /\ store' = [k \in DOMAIN store |->
                   IF store[k] /= NoRecord /\ store[k].expires <= now'
                   THEN NoRecord ELSE store[k]]
    /\ lastOp' = Op("tick", NoSid, TRUE)
    /\ UNCHANGED lastWrite
    /\ UNCHANGED <<connVars, metricVars, memoryVars, turnVars>>
    /\ UNCHANGED gatewayVars

(* POST /auth/login, with the uuid4 it draws: an id never drawn before. *)
login(sid) ==
    /\ lastWrite[sid] = -1
    /\ store' = Setex(store, sid, LoginTtl, SessionData(sid, now, now), now)
    /\ lastWrite' = [lastWrite EXCEPT ![sid] = now]
    /\ lastOp' = Op("login", sid, TRUE)
    /\ UNCHANGED <<now, ticks>>
    /\ UNCHANGED <<connVars, metricVars, memoryVars, turnVars>>
    /\ UNCHANGED gatewayVars

(* verify_session with bearer credentials cred (NoSid: no credentials):
   ok is FALSE when it raises the 401. *)
verify_session(cred) ==
    /\ lastOp' = Op("verify", cred, cred /= NoSid /\ Get(store, cred, now) /= NoData)
    /\ UNCHANGED <<now, ticks, store, lastWrite>>
    /\ UNCHANGED <<connVars, metricVars, memoryVars, turnVars>>
    /\ UNCHANGED gatewayVars

(* ------------------------------------------------------------------ *)
(* websocket_endpoint: accept and authentication                       *)
(* ------------------------------------------------------------------ *)
(* The names config.py defines at module level. *)
ConfigNames == {"os", "Optional", "BaseSettings", "Settings", "settings"}

(* from config import get_model_name *)
ImportSucceeds(name) == name \in ConfigNames

Accept(c) ==
    /\ pc[c] = "new"
    /\ pc' = [pc EXCEPT ![c] = "await_auth"]
    /\ WEBSOCKET_CONNECTIONS' = WEBSOCKET_CONNECTIONS + 1
    /\ ACTIVE_WEBSOCKETS' = ACTIVE_WEBSOCKETS + 1
    /\ UNCHANGED <<clientGone, inbox, sent, received, session_id, session_data, events,
                   closeCode>>
    /\ UNCHANGED <<AI_PROVIDER_ERRORS, MESSAGES_PROCESSED>>
    /\ UNCHANGED <<storeVars, memoryVars, turnVars>>
    /\ UNCHANGED gatewayVars

(* Faulty variant: the handler ends on the disconnect without the finally
   clause. *)
AuthDisconnectedNoCleanup(c) ==
    /\ pc[c] = "await_auth"
    /\ inbox[c] = <<>>
    /\ clientGone[c]
    /\ pc' = [pc EXCEPT ![c] = "closed"]
    /\ UNCHANGED <<clientGone, inbox, sent, received, session_id, session_data, events,
                   closeCode>>
    /\ UNCHANGED <<storeVars, metricVars, memoryVars, turnVars, gatewayVars>>

(* receive_json raises WebSocketDisconnect: the finally clause runs. *)
AuthDisconnected(c) ==
    /\ pc[c] = "await_auth"
    /\ inbox[c] = <<>>
    /\ clientGone[c]
    /\ pc' = [pc EXCEPT ![c] = "closed"]
    /\ ACTIVE_WEBSOCKETS' = ACTIVE_WEBSOCKETS - 1
    /\ UNCHANGED <<clientGone, inbox, sent, received, session_id, session_data, events,
                   closeCode>>
    /\ UNCHANGED <<WEBSOCKET_CONNECTIONS, AI_PROVIDER_ERRORS, MESSAGES_PROCESSED>>
    /\ UNCHANGED <<storeVars, memoryVars, turnVars>>
    /\ UNCHANGED gatewayVars

(* The first inbound message: without a session id the handler closes. *)
RecvAuth(c) ==
    /\ pc[c] = "await_auth"
    /\ inbox[c] /= <<>>
    /\ LET auth_data == Head(inbox[c])
       IN  /\ inbox' = [inbox EXCEPT ![c] = Tail(@)]
           /\ received' = [received EXCEPT ![c] = @ + 1]
           /\ session_id' = [session_id EXCEPT ![c] = auth_data.session_id]
           /\ IF MissingSessionId(auth_data)
              THEN /\ closeCode' = [closeCode EXCEPT ![c] = POLICY_VIOLATION]
                   /\ pc' = [pc EXCEPT ![c] = "closed"]
                   /\ ACTIVE_WEBSOCKETS' = ACTIVE_WEBSOCKETS - 1
              ELSE /\ pc' = [pc EXCEPT ![c] = "get"]
                   /\ UNCHANGED <<closeCode, ACTIVE_WEBSOCKETS>>
    /\ UNCHANGED <<clientGone, sent, session_data, events>>
    /\ UNCHANGED <<WEBSOCKET_CONNECTIONS, AI_PROVIDER_ERRORS, MESSAGES_PROCESSED>>
    /\ UNCHANGED <<storeVars, memoryVars, turnVars>>
    /\ UNCHANGED gatewayVars

(* The handler's step after a successful GET: go on to the rewrite. *)
AfterValidGet(c, data) ==
    /\ session_data' = [session_data EXCEPT ![c] = [data EXCEPT !.last_activity = now]]
    /\ pc' = [pc EXCEPT ![c] = "setex"]
    /\ UNCHANGED <<closeCode, ACTIVE_WEBSOCKETS>>

(* Faulty variant: the handler goes on after a GET that found nothing. *)
AfterInvalidGetContinues(c, data) == AfterValidGet(c, data)

(* The handler's step after a GET that found nothing: close. *)
AfterInvalidGet(c, data) ==
    /\ closeCode' = [closeCode EXCEPT ![c] = POLICY_VIOLATION]
    /\ pc' = [pc EXCEPT ![c] = "closed"]
    /\ ACTIVE_WEBSOCKETS' = ACTIVE_WEBSOCKETS - 1
    /\ UNCHANGED session_data

(* The GET of the session record and the branch on its result. *)
Validate(c) ==
    /\ pc[c] = "get"
    /\ LET data == Get(store, session_id[c], now)
       IN  /\ lastOp' = Op("ws_validate", session_id[c], data /= NoData)
           /\ IF data = NoData THEN AfterInvalidGet(c, data) ELSE AfterValidGet(c, data)
    /\ UNCHANGED <<now, ticks, store, lastWrite>>
    /\ UNCHANGED <<clientGone, inbox, sent, received, session_id, events>>
    /\ UNCHANGED <<WEBSOCKET_CONNECTIONS, AI_PROVIDER_ERRORS, MESSAGES_PROCESSED>>
    /\ UNCHANGED <<memoryVars, turnVars>>
    /\ UNCHANGED gatewayVars

(* The SETEX of the refreshed record, and the code up to the next await:
   the import of get_model_name, then the auth_success event. A failing
   import or send raises out of the handler and the finally clause runs. *)
Touch(c) ==
    /\ pc[c] = "setex"
    /\ LET sid == session_id[c]
       IN  /\ store' = Setex(store, sid, TouchTtl(store[sid], now), session_data[c], now)
           /\ lastWrite' = [lastWrite EXCEPT ![sid] = now]
           /\ lastOp' = Op("ws_touch", sid, TRUE)
           /\ session_tool_calls' =
                  [s \in (DOMAIN session_tool_calls) \cup {sid} |->
                     IF s = sid THEN <<>> ELSE session_tool_calls[s]]
    /\ IF ImportSucceeds("get_model_name") /\ ~clientGone[c]
       THEN /\ events' = [events EXCEPT ![c] = Append(@, AuthSuccess)]
            /\ pc' = [pc EXCEPT ![c] = "idle"]
            /\ UNCHANGED ACTIVE_WEBSOCKETS
       ELSE /\ pc' = [pc EXCEPT ![c] = "closed"]
            /\ ACTIVE_WEBSOCKETS' = ACTIVE_WEBSOCKETS - 1
            /\ UNCHANGED events
    /\ UNCHANGED <<now, ticks>>
    /\ UNCHANGED <<clientGone, inbox, sent, received, session_id, session_data, closeCode>>
    /\ UNCHANGED <<WEBSOCKET_CONNECTIONS, AI_PROVIDER_ERRORS, MESSAGES_PROCESSED>>
    /\ UNCHANGED <<session_chat_history, appended, turnVars>>
    /\ UNCHANGED gatewayVars

(* ------------------------------------------------------------------ *)
(* add_to_chat_history called directly                                 *)
(* ------------------------------------------------------------------ *)
Roles == {"user", "assistant"}

AddHistory(sid, role, content) ==
    /\ Len(appended["s1"]) + Len(appended["s2"]) < MaxAppends
    /\ session_chat_history' =
           add_to_chat_history(session_chat_history, sid, role, content, now)
    /\ appended' = [appended EXCEPT ![sid] = Append(@, Turn(role, content, now))]
    /\ UNCHANGED session_tool_calls
    /\ UNCHANGED <<storeVars, connVars, metricVars, turnVars>>
    /\ UNCHANGED gatewayVars

(* ------------------------------------------------------------------ *)
(* get_chat_history_context called directly                            *)
(* ------------------------------------------------------------------ *)
(* memory_context = get_chat_history_context(sid), in the handler of c *)
GetContext(c, sid) ==
    /\ memory_context' =
           [memory_context EXCEPT ![c] = get_chat_history_context(session_chat_history, sid)]
    /\ UNCHANGED <<turnLocals, logged>>
    /\ UNCHANGED <<storeVars, connVars, metricVars, memoryVars>>
    /\ UNCHANGED gatewayVars

(* ------------------------------------------------------------------ *)
(* Values shared by the gateway, the settings and the extraction       *)
(* ------------------------------------------------------------------ *)
(* Python's None, as a value of a string-typed setting. *)
None == "<None>"

(* not v, for an Optional[str] *)
Falsy(v) == v \in {None, ""}

(* How a call ends: it returns a value or raises an exception. *)
NoException == [type |-> "", status |-> 0]
Exception(type) == [type |-> type, status |-> 0]
HTTPStatusError(status) == [type |-> "HTTPStatusError", status |-> status]
Value(kind, doc, items) == [kind |-> kind, doc |-> doc, items |-> items]
NoValue == Value("none", "", <<>>)
Return(v) == [raised |-> FALSE, exc |-> NoException, value |-> v]
Raise(e) == [raised |-> TRUE, exc |-> e, value |-> NoValue]

(* ------------------------------------------------------------------ *)
(* mcp_client.MCPClient                                                *)
(* ------------------------------------------------------------------ *)
McpUrl == "http://mcp"

(* The bodies the MCP server answers with. *)
Docs == {"", "<html>", "{\"result\":[\"t1\"]}", "{\"result\":{\"tools\":[\"t1\",\"t2\"]}}",
         "{\"result\":{}}", "{\"tools\":[\"t1\"]}", "[\"t1\"]", "5"}

(* response.json(): whether the body parses, and the shape of the value. *)
Json(text) ==
    CASE text = "{\"result\":[\"t1\"]}" ->
             [ok |-> TRUE, type |-> "dict", result |-> "list", items |-> <<"t1">>]
      [] text = "{\"result\":{\"tools\":[\"t1\",\"t2\"]}}" ->
             [ok |-> TRUE, type |-> "dict", result |-> "dict_tools", items |-> <<"t1", "t2">>]
      [] text = "{\"result\":{}}" ->
             [ok |-> TRUE, type |-> "dict", result |-> "dict", items |-> <<>>]
      [] text = "{\"tools\":[\"t1\"]}" ->
             [ok |-> TRUE, type |-> "dict", result |-> "absent", items |-> <<>>]
      [] text = "[\"t1\"]" ->
             [ok |-> TRUE, type |-> "list", result |-> "absent", items |-> <<"t1">>]
      [] text = "5" ->
             [ok |-> TRUE, type |-> "number", result |-> "absent", items |-> <<>>]
      [] OTHER ->
             [ok |-> FALSE, type |-> "", result |-> "absent", items |-> <<>>]

(* The content type the server gives a body. *)
ContentTypeOf(text) == IF Json(text).ok THEN "application/json" ELSE "text/html"

Statuses == {200, 405, 500}

(* What an HTTP request comes back with: a response, or a transport error
   (status 0). *)
Response(status, ctype, text) == [status |-> status, ctype |-> ctype, text |-> text]
TransportError == Response(0, "", "")
Responses ==
    {Response(st, ContentTypeOf(d), d) : st \in Statuses, d \in Docs}
        \cup {Response(200, "text/plain", "{\"result\":[\"t1\"]}"), TransportError}

(* The answers of the legacy GET /tools that the model enumerates. *)
LegacyResponses ==
    {r \in Responses : r.status \in {0, 200, 500}
                       /\ r.text \in {"", "<html>", "[\"t1\"]", "{\"tools\":[\"t1\"]}", "5"}}

(* await client.post / client.get followed by raise_for_status *)
RaiseForStatus(r) ==
    IF r = TransportError THEN Raise(Exception("RequestError"))
    ELSE IF r.status >= 400 THEN Raise(HTTPStatusError(r.status))
    ELSE Return(NoValue)

Request(method, path) == [method |-> method, path |-> path]
EmptyList == Value("list", "", <<>>)
ToolList(items) == Value("list", "", items)
Parsed(text) == Value("json", text, Json(text).items)
ErrorValue(msg) == Value("error", msg, <<>>)
Bool(b) == Value("bool", IF b THEN "True" ELSE "False", <<>>)

(* MCPClient.__init__. The field built counts the httpx.AsyncClient objects
   constructed so far: it tells the client of one construction from the
   client of the next. *)
MCPClient(url) ==
    [base_url |-> url, client |-> "None", initialized |-> FALSE, built |-> 0]

(* The most AsyncClient objects one gateway constructs. *)
MaxBuilt == 2

(* Faulty variant: no test of _initialized, every call constructs a client. *)
initialize_rebuilds(mc) ==
    IF ~Falsy(mc.base_url)
    THEN [mc EXCEPT !.client = "open", !.initialized = TRUE, !.built = @ + 1]
    ELSE mc

(* MCPClient.initialize *)
initialize(mc) ==
    IF mc.initialized THEN mc
    ELSE IF ~Falsy(mc.base_url)
    THEN [mc EXCEPT !.client = "open", !.initialized = TRUE, !.built = @ + 1]
    ELSE mc

(* MCPClient.is_configured *)
is_configured(mc) == ~Falsy(mc.base_url)

(* MCPClient.close *)
close(mc) ==
    IF mc.client /= "None" THEN [mc EXCEPT !.client = "closed", !.initialized = FALSE]
    ELSE mc

(* The guard both calls start with: answer at once, without a request. *)
ShortCircuits(mc) == Falsy(mc.base_url) \/ ~mc.initialized

(* list_tools, the try block after the POST of tools/list came back. *)
ListToolsTry(post) ==
    LET posted == RaiseForStatus(post)
        j == Json(post.text)
    IN  IF posted.raised THEN posted
        ELSE IF post.text = "" THEN Return(EmptyList)
        ELSE IF post.ctype /= "application/json" THEN Return(EmptyList)
        ELSE IF ~j.ok THEN Raise(Exception("JSONDecodeError"))
        ELSE IF j.type = "number" THEN Raise(Exception("TypeError"))
        ELSE IF j.type = "dict" /\ j.result \in {"list", "dict_tools"}
             THEN Return(ToolList(j.items))
        ELSE Return(EmptyList)

(* list_tools, the inner try block: the legacy GET /tools. *)
LegacyTry(get) ==
    LET got == RaiseForStatus(get)
        j == Json(get.text)
    IN  IF got.raised THEN got
        ELSE IF ~j.ok THEN Raise(Exception("JSONDecodeError"))
        ELSE IF j.type = "number" THEN Raise(Exception("TypeError"))
        ELSE Return(Parsed(get.text))

(* Faulty variant: every HTTP error status starts the fallback. *)
FallsBackAlways(exc) == exc.type = "HTTPStatusError"

(* e.response.status_code == 405, under except httpx.HTTPStatusError *)
FallsBack(exc) == exc.type = "HTTPStatusError" /\ exc.status = 405

(* list_tools: the outcome, the requests it issued, the client after it. *)
list_tools(mc, post, get) ==
    IF ShortCircuits(mc)
    THEN [outcome |-> Return(EmptyList), requests |-> <<>>, mc |-> mc]
    ELSE LET mc1 == initialize(mc)
             first == ListToolsTry(post)
             legacy == LegacyTry(get)
         IN  IF ~first.raised
             THEN [outcome |-> first, requests |-> <<Request("POST", <<"">>)>>, mc |-> mc1]
             ELSE IF FallsBack(first.exc)
             THEN [outcome |-> IF legacy.raised THEN Return(EmptyList) ELSE legacy,
                   requests |-> <<Request("POST", <<"">>), Request("GET", <<"tools">>)>>,
                   mc |-> mc1]
             ELSE [outcome |-> Return(EmptyList),
                   requests |-> <<Request("POST", <<"">>)>>, mc |-> mc1]

(* call_tool, the try block after the POST came back. *)
CallToolTry(post) ==
    LET posted == RaiseForStatus(post)
    IN  IF posted.raised THEN posted
        ELSE IF ~Json(post.text).ok THEN Raise(Exception("JSONDecodeError"))
        ELSE Return(Parsed(post.text))

(* Faulty variant: only the HTTP status errors are handled. *)
CallToolHandlersStatusOnly(tried) ==
    IF ~tried.raised THEN tried
    ELSE IF tried.exc.type = "HTTPStatusError"
    THEN Return(ErrorValue("MCP tool call failed"))
    ELSE tried

(* call_tool, its two except clauses. *)
CallToolHandlers(tried) ==
    IF ~tried.raised THEN tried
    ELSE IF tried.exc.type = "HTTPStatusError"
    THEN Return(ErrorValue("MCP tool call failed"))
    ELSE Return(ErrorValue("Error calling MCP tool"))

(* call_tool: the outcome, the requests it issued, the client after it. *)
call_tool(mc, tool_name, post) ==
    IF ShortCircuits(mc)
    THEN [outcome |-> Return(ErrorValue("MCP not configured")), requests |-> <<>>, mc |-> mc]
    ELSE [outcome |-> CallToolHandlers(CallToolTry(post)),
          requests |-> <<Request("POST", <<"tools", tool_name, "call">>)>>,
          mc |-> initialize(mc)]

ToolNames == {"search", "fetch"}

McpCall(op, post, get, r) ==
    [op |-> op, post |-> post, get |-> get, requests |-> r.requests,
     outcome |-> r.outcome, before |-> mcp_client]
NoCall == [op |-> "none", post |-> TransportError, get |-> TransportError,
           requests |-> <<>>, outcome |-> Return(NoValue), before |-> MCPClient(None)]

serverVars == <<storeVars, connVars, metricVars, memoryVars, turnVars>>

McpInitialize ==
    /\ initialize(mcp_client).built <= MaxBuilt
    /\ mcp_client' = initialize(mcp_client)
    /\ mcpReturn' = [NoCall EXCEPT !.op = "initialize", !.before = mcp_client]
    /\ UNCHANGED <<settings, aiModel, tool_calls, sources_list>>
    /\ UNCHANGED serverVars

McpClose ==
    /\ mcp_client' = close(mcp_client)
    /\ mcpReturn' = [NoCall EXCEPT !.op = "close", !.before = mcp_client]
    /\ UNCHANGED <<settings, aiModel, tool_calls, sources_list>>
    /\ UNCHANGED serverVars

McpIsConfigured ==
    /\ mcpReturn' = [NoCall EXCEPT !.op = "is_configured", !.before = mcp_client,
                                   !.outcome = Return(Bool(is_configured(mcp_client)))]
    /\ UNCHANGED <<mcp_client, settings, aiModel, tool_calls, sources_list>>
    /\ UNCHANGED serverVars

McpListTools(post, get) ==
    /\ LET r == list_tools(mcp_client, post, get)
       IN  /\ mcp_client' = r.mc
           /\ mcpReturn' = McpCall("list_tools", post, get, r)
    /\ UNCHANGED <<settings, aiModel, tool_calls, sources_list>>
    /\ UNCHANGED serverVars

McpCallTool(tool_name, post) ==
    /\ LET r == call_tool(mcp_client, tool_name, post)
       IN  /\ mcp_client' = r.mc
           /\ mcpReturn' = [McpCall("call_tool", post, TransportError, r)
                               EXCEPT !.requests = r.requests]
    /\ UNCHANGED <<settings, aiModel, tool_calls, sources_list>>
    /\ UNCHANGED serverVars

(* ------------------------------------------------------------------ *)
(* ai_provider.get_ai_model                                            *)
(* ------------------------------------------------------------------ *)
Providers == {"azure", "openrouter", "openai", "anthropic", "gemini"}
CredentialValues == {None, "", "k"}

Settings(provider, azKey, azEndpoint, orKey, oaKey, anKey, mcpUrl) ==
    [ai_provider |-> provider, azure_openai_key |-> azKey,
     azure_openai_endpoint |-> azEndpoint, openrouter_api_key |-> orKey,
     openai_api_key |-> oaKey, anthropic_api_key |-> anKey, mcp_http_url |-> mcpUrl]

AllSettings ==
    {Settings(p, k1, k2, k3, k4, k5, None) :
        p \in Providers, k1 \in CredentialValues, k2 \in CredentialValues,
        k3 \in CredentialValues, k4 \in CredentialValues, k5 \in CredentialValues}

(* A model object: its class, its provider class, the setting naming the
   model. *)
Model(class, provider, nameSetting) == Value("model", class, <<provider, nameSetting>>)

(* The branch of get_ai_model for the variant named variant. *)
ResolveVariant(st, variant) ==
    IF variant = "azure"
    THEN IF Falsy(st.azure_openai_key) \/ Falsy(st.azure_openai_endpoint)
         THEN Raise(Exception("ValueError"))
         ELSE Return(Model("OpenAIChatModel", "AzureProvider", "azure_openai_deployment"))
    ELSE IF variant = "openrouter"
    THEN IF Falsy(st.openrouter_api_key)
         THEN Raise(Exception("ValueError"))
         ELSE Return(Model("OpenAIChatModel", "OpenRouterProvider", "openrouter_model"))
    ELSE IF variant = "openai"
    THEN IF Falsy(st.openai_api_key)
         THEN Raise(Exception("ValueError"))
         ELSE Return(Model("OpenAIChatModel", "OpenAIProvider", "openai_model"))
    ELSE IF variant = "anthropic"
    THEN IF Falsy(st.anthropic_api_key)
         THEN Raise(Exception("ValueError"))
         ELSE Return(Model("AnthropicModel", "", "anthropic_model"))
    ELSE Raise(Exception("ValueError"))

(* Faulty variant: without the credentials of the variant named, the
   OpenAI variant is used when its key is set. *)
get_ai_model_fallback(st) ==
    LET named == ResolveVariant(st, st.ai_provider)
    IN  IF named.raised /\ ~Falsy(st.openai_api_key)
        THEN ResolveVariant(st, "openai") ELSE named

get_ai_model(st) == ResolveVariant(st, st.ai_provider)

Resolved(st, outcome) == [settings |-> st, outcome |-> outcome]

(* get_ai_model under the settings st, as create_agent calls it. *)
ResolveModel(st) ==
    /\ settings' = st
    /\ aiModel' = Resolved(st, get_ai_model(st))
    /\ UNCHANGED <<mcp_client, mcpReturn, tool_calls, sources_list>>
    /\ UNCHANGED serverVars

(* ------------------------------------------------------------------ *)
(* websocket_endpoint: the extraction of sources from the tool calls   *)
(* ------------------------------------------------------------------ *)
MaxToolCalls == 2

(* A key a dict does not have. *)
NoKey == "<absent>"

(* The items of a list: a dict with url, link and title, or a string. *)
DictItem(url, link, title) == [t |-> "dict", url |-> url, link |-> link, title |-> title, s |-> ""]
StrItem(str) == [t |-> "str", url |-> NoKey, link |-> NoKey, title |-> NoKey, s |-> str]
NoItem == StrItem("")

(* The value of a field: a list, a string or a dict. *)
ListField(items) == [t |-> "list", items |-> items, s |-> "", d |-> NoItem]
StrField(str) == [t |-> "str", items |-> <<>>, s |-> str, d |-> NoItem]
DictField(d) == [t |-> "dict", items |-> <<>>, s |-> "", d |-> d]

Pair(key, value) == [key |-> key, value |-> value]

(* tool_call.response: a dict (its items, in order), a string, or None;
   Unbound is the local response_data before its first assignment. *)
DictResponse(pairs) == [t |-> "dict", pairs |-> pairs, s |-> ""]
StrResponse(str) == [t |-> "str", pairs |-> <<>>, s |-> str]
NoResponse == [t |-> "none", pairs |-> <<>>, s |-> ""]
Unbound == [t |-> "unbound", pairs |-> <<>>, s |-> ""]

ToolCall(response, source) == [response |-> response, source |-> source]

Payloads ==
    {DictResponse(<<Pair("sources", ListField(<<DictItem("http://x", NoKey, "X")>>))>>),
     DictResponse(<<Pair("links", ListField(<<StrItem("http://y")>>))>>),
     DictResponse(<<Pair("text", StrField("hello"))>>),
     DictResponse(<<>>),
     DictResponse(<<Pair("results", ListField(<<DictItem("http://z", NoKey, NoKey)>>))>>),
     DictResponse(<<Pair("url", StrField("http://x"))>>),
     DictResponse(<<Pair("source", DictField(DictItem(NoKey, "http://y", "Y")))>>),
     DictResponse(<<Pair("sources", ListField(<<DictItem(NoKey, NoKey, "X")>>))>>),
     DictResponse(<<Pair("references", ListField(<<StrItem("see docs")>>))>>),
     DictResponse(<<Pair("text", StrField("hello")),
                    Pair("links", ListField(<<DictItem("", "http://y", NoKey)>>))>>),
     StrResponse("hello"),
     NoResponse}

ToolCalls ==
    {ToolCall(p, NoKey) : p \in Payloads}
        \cup {ToolCall(DictResponse(<<Pair("text", StrField("hello"))>>), "kb")}

(* bool(tool_call.response) *)
TruthyResponse(r) ==
    \/ r.t = "dict" /\ r.pairs /= <<>>
    \/ r.t = "str" /\ r.s /= ""

(* 'http' in s or 'https' in s *)
ContainsHttp(str) == str \in {"http://x", "http://y", "http://z"}

(* 'url' in key.lower() or 'link' in key.lower() *)
KeyNamesUrl(key) == key \in {"links", "urls", "link", "url"}

source_fields == <<"sources", "links", "references", "urls", "source", "link", "url">>

(* An entry of sources_list: "- [title](url)", "- text" or "- Source: text". *)
Link(title, url) == [form |-> "link", title |-> title, url |-> url]
Plain(text) == [form |-> "plain", title |-> NoKey, url |-> text]
SourceLine(text) == [form |-> "source", title |-> NoKey, url |-> text]

(* item.get('url') or item.get('link') *)
UrlOf(item) == IF item.url \notin {NoKey, ""} THEN item.url ELSE item.link

(* item.get('title', 'Documentation') *)
TitleOf(item) == IF item.title = NoKey THEN "Documentation" ELSE item.title

(* if url: sources_list.append(f"- [{title}]({url})") *)
LinkEntry(item) ==
    IF UrlOf(item) \notin {NoKey, ""} THEN <<Link(TitleOf(item), UrlOf(item))>> ELSE <<>>

HasUrlOrLink(item) == item.url /= NoKey \/ item.link /= NoKey

(* The first scan, lines 402-415: one item of a list field. *)
ListItemEntries(item) ==
    IF item.t = "dict"
    THEN IF HasUrlOrLink(item) THEN LinkEntry(item) ELSE <<>>
    ELSE <<Plain(item.s)>>

(* The first scan, lines 399-424: the value of one source field. *)
FieldEntries(fd) ==
    IF fd.t = "list"
    THEN Concat([i \in 1..Len(fd.items) |-> ListItemEntries(fd.items[i])])
    ELSE IF fd.t = "str"
    THEN IF ContainsHttp(fd.s) THEN <<Plain(fd.s)>> ELSE <<>>
    ELSE LinkEntry(fd.d)

HasField(pairs, key) == \E i \in 1..Len(pairs) : pairs[i].key = key
FieldOf(pairs, key) == pairs[CHOOSE i \in 1..Len(pairs) : pairs[i].key = key].value

(* The first scan, lines 393-424: the source fields of a dict response. *)
FirstScan(pairs) ==
    Concat([f \in 1..Len(source_fields) |->
              IF HasField(pairs, source_fields[f])
              THEN FieldEntries(FieldOf(pairs, source_fields[f])) ELSE <<>>])

(* The second scan, lines 437-442: one item of a list value. *)
SecondScanItem(item) ==
    IF item.t = "dict" /\ HasUrlOrLink(item) THEN LinkEntry(item) ELSE <<>>

(* The second scan, lines 431-442: every item of response_data. *)
SecondScan(pairs) ==
    Concat([i \in 1..Len(pairs) |->
              LET value == pairs[i].value
              IN  IF KeyNamesUrl(pairs[i].key)
                  THEN IF value.t = "str" /\ ContainsHttp(value.s)
                       THEN <<Plain(value.s)>> ELSE <<>>
                  ELSE IF value.t = "list"
                  THEN Concat([k \in 1..Len(value.items) |-> SecondScanItem(value.items[k])])
                  ELSE <<>>])

Extracted(raised, entries) == [raised |-> raised, entries |-> entries]

(* The loop over final_data.tool_calls, lines 385-442: response_data is the
   local the loop assigns only for a call with a response, so it is unbound
   or left over from an earlier call otherwise. *)
RECURSIVE ExtractFrom(_, _, _)
ExtractFrom(calls, response_data, entries) ==
    IF calls = <<>> THEN Extracted(FALSE, entries)
    ELSE LET tool_call == Head(calls)
             has == TruthyResponse(tool_call.response)
             data == IF has THEN tool_call.response ELSE response_data
             first == IF has /\ data.t = "dict" THEN FirstScan(data.pairs) ELSE <<>>
             direct == IF tool_call.source \notin {NoKey, ""}
                       THEN <<SourceLine(tool_call.source)>> ELSE <<>>
             second == IF data.t = "dict" THEN SecondScan(data.pairs) ELSE <<>>
         IN  IF data = Unbound
             THEN Extracted(TRUE, <<>>)
             ELSE ExtractFrom(Tail(calls), data, entries \o first \o direct \o second)

(* sources_list after the loop, or the exception that ended it. *)
ExtractSourcesList(calls) == ExtractFrom(calls, Unbound, <<>>)

NotExtracted == Extracted(FALSE, <<>>)

SeqsUpTo(S, n) == UNION {[1..k -> S] : k \in 1..n}

(* The extraction over the tool calls of one turn. *)
ExtractSources(calls) ==
    /\ tool_calls' = calls
    /\ sources_list' = ExtractSourcesList(calls)
    /\ UNCHANGED <<settings, mcp_client, mcpReturn, aiModel>>
    /\ UNCHANGED serverVars

(* ------------------------------------------------------------------ *)
(* Specifications                                                      *)
(* ------------------------------------------------------------------ *)
EmptyDict == [s \in {} |-> <<>>]

InitMemory ==
    /\ session_chat_history = EmptyDict
    /\ appended = [s \in SessionIds |-> <<>>]

InitLocals ==
    /\ now = 0
    /\ ticks = 0
    /\ lastOp = Op("init", NoSid, TRUE)
    /\ clientGone = [c \in Conns |-> FALSE]
    /\ inbox = [c \in Conns |-> <<>>]
    /\ sent = 0
    /\ received = [c \in Conns |-> 0]
    /\ session_data = [c \in Conns |-> NoData]
    /\ closeCode = [c \in Conns |-> 0]
    /\ AI_PROVIDER_ERRORS = 0
    /\ MESSAGES_PROCESSED = 0
    /\ chunk_count = [c \in Conns |-> 0]
    /\ response_id = [c \in Conns |-> 0]
    /\ previous_content = [c \in Conns |-> <<>>]
    /\ full_response = [c \in Conns |-> <<>>]
    /\ frags = [c \in Conns |-> <<>>]
    /\ deltas = [c \in Conns |-> <<>>]
    /\ warnings = [c \in Conns |-> {}]
    /\ nextRid = 0
    /\ turnRids = <<>>
    /\ logged = [c \in Conns |-> {}]
    /\ memory_context = [c \in Conns |-> <<>>]

(* The settings of a process that started: create_agent succeeded at
   import (main.py:100-126). *)
RunningSettings == Settings("openai", None, None, None, "k", None, None)

(* The gateway, the model and the extraction after start-up. *)
InitGateway ==
    /\ settings = RunningSettings
    /\ mcp_client = MCPClient(settings.mcp_http_url)
    /\ mcpReturn = NoCall
    /\ aiModel = Resolved(settings, get_ai_model(settings))
    /\ tool_calls = <<>>
    /\ sources_list = NotExtracted

(* The server after start-up: no session, no connection. *)
InitCommon == InitLocals /\ InitMemory

InitStartUp ==
    /\ store = [s \in SessionIds |-> NoRecord]
    /\ lastWrite = [s \in SessionIds |-> -1]
    /\ pc = [c \in Conns |-> "new"]
    /\ session_id = [c \in Conns |-> NoSid]
    /\ events = [c \in Conns |-> <<>>]
    /\ ACTIVE_WEBSOCKETS = 0
    /\ WEBSOCKET_CONNECTIONS = 0
    /\ session_tool_calls = EmptyDict

InitServer == InitCommon /\ InitStartUp

(* The process after start-up. *)
Init == InitServer /\ InitGateway

(* The handshake of connection c and its client. *)
Handshake(c) ==
    \/ Accept(c)
    \/ \E m \in ClientMessages : ClientSend(c, m, MaxSends)
    \/ ClientDisconnect(c)
    \/ AuthDisconnected(c)
    \/ RecvAuth(c)
    \/ Validate(c)
    \/ Touch(c)

Next ==
    \/ \E d \in TickSteps : Tick(d)
    \/ \E s \in SessionIds : login(s)
    \/ \E cred \in SessionIds \cup {NoSid} : verify_session(cred)
    \/ Handshake("c1")

Spec == Init /\ [][Next]_vars

(* The message loop (lines 282-478) from its entry: every connection has
   passed the handshake for a session of the store and waits for its first
   message. Spec does not reach this state, because the import in Touch
   fails (config.py defines no get_model_name); the loop is therefore
   checked on its own, from here. *)
InitLoop ==
    /\ InitCommon
    /\ store = [s \in SessionIds |-> [data |-> SessionData(s, 0, 0), expires |-> SESSION_TTL]]
    /\ lastWrite = [s \in SessionIds |-> 0]
    /\ pc = [c \in Conns |-> "idle"]
    /\ session_id = [c \in Conns |-> "s1"]
    /\ events = [c \in Conns |-> <<AuthSuccess>>]
    /\ ACTIVE_WEBSOCKETS = Cardinality(Conns)
    /\ WEBSOCKET_CONNECTIONS = Cardinality(Conns)
    /\ session_tool_calls = [s \in {session_id[c] : c \in Conns} |-> <<>>]
    /\ InitGateway

LoopStep(c, fragments, maxFrags, limit) ==
    \/ \E m \in LoopMessages : ClientSend(c, m, limit)
    \/ ClientDisconnect(c)
    \/ LoopEnds(c)
    \/ RecvMessage(c)
    \/ \E cur \in fragments : StreamChunk(c, cur, maxFrags)
    \/ StreamFail(c)
    \/ StreamEnd(c)
    \/ \E outcome \in ExtractionOutcomes : Extract(c, outcome)
    \/ SendDone(c)

(* One turn of one connection, over every fragment sequence. *)
NextStream == LoopStep("c1", StringsUpTo(MaxFragLen), MaxFrags, 1)

SpecStream == InitLoop /\ [][NextStream]_vars

(* Successive turns of one connection; the backend streams cumulatively
   or not. *)
TurnFragments == {<<>>, <<"a">>, <<"a", "b">>}

NextTurn == LoopStep("c1", TurnFragments, MaxTurnFrags, MaxSends)

SpecTurn == InitLoop /\ [][NextTurn]_vars

(* Turns of two connections of one session, side by side. *)
PairFragments == {<<"a">>, <<"a", "b">>}

NextPair == \E c \in Conns : LoopStep(c, PairFragments, MaxPairFrags, Cardinality(Conns))

SpecPair == InitLoop /\ [][NextPair]_vars

(* Turns of one connection while time passes and its session record
   expires. *)
NextExpiry ==
    \/ \E d \in TickSteps : Tick(d)
    \/ LoopStep("c1", PairFragments, MaxPairFrags, Cardinality(Conns))

SpecExpiry == InitLoop /\ [][NextExpiry]_vars

(* add_to_chat_history over every sequence of calls. *)
NextHistory ==
    \E sid \in SessionIds, role \in Roles : AddHistory(sid, role, <<"a">>)

SpecHistory == Init /\ [][NextHistory]_vars

(* get_chat_history_context and add_to_chat_history called directly, on a
   session s1 that has had nine short turns and a session s2 that has had
   none; the contents appended are of 1, 200 and 201 characters. *)
Content(n) == [i \in 1..n |-> IF i = 1 \/ i > ContextChars THEN "b" ELSE "a"]

ContextContents == {Content(1), Content(ContextChars), Content(ContextChars + 1)}

EarlierTurns ==
    [i \in 1..(MAX_CHAT_HISTORY - 1) |->
        Turn(IF i % 2 = 1 THEN "user" ELSE "assistant", <<"a">>, 0)]

InitContext ==
    /\ InitLocals
    /\ InitStartUp
    /\ InitGateway
    /\ session_chat_history = [s \in {"s1"} |-> EarlierTurns]
    /\ appended = [s \in SessionIds |-> IF s = "s1" THEN EarlierTurns ELSE <<>>]

NextContext ==
    \/ \E role \in Roles, content \in ContextContents : AddHistory("s1", role, content)
    \/ \E sid \in SessionIds : GetContext("c1", sid)

SpecContext == InitContext /\ [][NextContext]_vars

(* Two connections from accept to the end of their handlers. *)
NextGauge ==
    \/ \E s \in SessionIds : login(s)
    \/ \E c \in Conns : Handshake(c)

SpecGauge == Init /\ [][NextGauge]_vars

(* Two connections that authenticate with the id of one session while
   time passes: each client sends its first message and stays connected. *)
RaceStep(c) ==
    \/ Accept(c)
    \/ ClientSend(c, [session_id |-> "s1", message |-> Absent], Cardinality(Conns))
    \/ RecvAuth(c)
    \/ Validate(c)
    \/ Touch(c)

NextRace ==
    \/ \E d \in TickSteps : Tick(d)
    \/ login("s1")
    \/ \E c \in Conns : RaceStep(c)

SpecRace == Init /\ [][NextRace]_vars

(* The MCPClient of a process whose MCP_HTTP_URL is unset, empty or set,
   under every sequence of calls and every answer of the server. *)
InitMcp ==
    /\ InitServer
    /\ settings \in {[RunningSettings EXCEPT !.mcp_http_url = u] : u \in {None, "", McpUrl}}
    /\ mcp_client = MCPClient(settings.mcp_http_url)
    /\ mcpReturn = NoCall
    /\ aiModel = Resolved(settings, get_ai_model(settings))
    /\ tool_calls = <<>>
    /\ sources_list = NotExtracted

NextMcp ==
    \/ McpInitialize
    \/ McpClose
    \/ McpIsConfigured
    \/ \E post \in Responses, get \in LegacyResponses : McpListTools(post, get)
    \/ \E tool_name \in ToolNames, post \in Responses : McpCallTool(tool_name, post)

SpecMcp == InitMcp /\ [][NextMcp]_vars

(* get_ai_model under every configuration. *)
NextModel == \E st \in AllSettings : ResolveModel(st)

SpecModel == Init /\ [][NextModel]_vars

(* The source extraction over every sequence of tool calls. *)
NextSources == \E calls \in SeqsUpTo(ToolCalls, MaxToolCalls) : ExtractSources(calls)

SpecSources == Init /\ [][NextSources]_vars

(* ------------------------------------------------------------------ *)
(* Properties                                                          *)
(* ------------------------------------------------------------------ *)
IsChunk(e) == e.type = "chunk"
NonEmpty(t) == t /= <<>>
ChunkEvents(c) == SelectSeq(events[c], IsChunk)
ChunkContents(c) == [i \in 1..Len(ChunkEvents(c)) |-> ChunkEvents(c)[i].content]
Cumulative(fs) == \A i \in 2..Len(fs) : StartsWith(fs[i], fs[i - 1])

(* C2: when every fragment of the turn starts with the previous one, the
   first delta is the first fragment, each later fragment is the previous
   fragment followed by its delta, and the deltas concatenated (the
   accumulated response) are the last fragment. *)
C2_CumulativeDeltas ==
    LET fs == frags["c1"]
        ds == deltas["c1"]
    IN  Cumulative(fs) =>
            /\ Len(ds) = Len(fs)
            /\ fs /= <<>> => ds[1] = fs[1]
            /\ \A i \in 2..Len(fs) : fs[i] = fs[i - 1] \o ds[i]
            /\ fs /= <<>> => /\ Concat(ds) = fs[Len(fs)]
                             /\ full_response["c1"] = fs[Len(fs)]

(* "Hi", "Hi there" and a third cumulative fragment: the second delta is
   the new text only, and the client has received the chunks. *)
C2_Witness ==
    /\ frags["c1"] = << <<"a">>, <<"a", "b">>, <<"a", "b">> >>
    /\ deltas["c1"] = << <<"a">>, <<"b">>, <<>> >>
    /\ ChunkContents("c1") = << <<"a">>, <<"b">> >>

(* C3: a fragment after the first that does not start with the previous
   fragment has itself as delta and is logged as a warning (and only such
   fragments are); the step that handles it raises nothing: with the client
   connected no error is counted, the stream loop goes on, and the fragment,
   unless it is empty, is sent as a chunk. *)
C3_AnomalyState ==
    LET fs == frags["c1"]
        ds == deltas["c1"]
    IN  /\ Len(ds) = Len(fs)
        /\ \A i \in 1..Len(fs) :
              (i >= 2 /\ ~StartsWith(fs[i], fs[i - 1])) =>
                  (ds[i] = fs[i] /\ i \in warnings["c1"])
        /\ \A i \in warnings["c1"] :
              i \in 2..Len(fs) /\ ~StartsWith(fs[i], fs[i - 1])

C3_AnomalyStep ==
    (/\ pc["c1"] = "streaming"
     /\ Len(frags'["c1"]) = Len(frags["c1"]) + 1
     /\ frags["c1"] /= <<>>
     /\ ~StartsWith(frags'["c1"][Len(frags'["c1"])], frags["c1"][Len(frags["c1"])])
     /\ ~clientGone["c1"])
    => /\ pc'["c1"] = "streaming"
       /\ AI_PROVIDER_ERRORS' = AI_PROVIDER_ERRORS
       /\ IF frags'["c1"][Len(frags'["c1"])] = <<>>
          THEN events'["c1"] = events["c1"]
          ELSE /\ Len(events'["c1"]) = Len(events["c1"]) + 1
               /\ events'["c1"][Len(events'["c1"])].type = "chunk"
               /\ events'["c1"][Len(events'["c1"])].content =
                      frags'["c1"][Len(frags'["c1"])]

C3_NonCumulativeVerbatim == [](C3_AnomalyState) /\ [][C3_AnomalyStep]_vars

(* "Hi" then "Bye", then one more fragment processed after the anomaly. *)
C3_Witness ==
    /\ Len(frags["c1"]) = 3
    /\ frags["c1"][1] = <<"a">>
    /\ frags["c1"][2] = <<"b">>
    /\ deltas["c1"][2] = <<"b">>
    /\ warnings["c1"] = {2}
    /\ frags["c1"][3] = <<"b", "a">>
    /\ ChunkContents("c1") = << <<"a">>, <<"b">>, <<"a">> >>
    /\ pc["c1"] = "streaming"
    /\ AI_PROVIDER_ERRORS = 0

(* C4: no chunk event has empty content, and while the client is connected
   the chunk events are exactly the non-empty deltas, in order. *)
C4_NoEmptyChunk ==
    /\ \A i \in 1..Len(events["c1"]) :
          events["c1"][i].type = "chunk" => events["c1"][i].content /= <<>>
    /\ ~clientGone["c1"] => ChunkContents("c1") = SelectSeq(deltas["c1"], NonEmpty)

(* "Hi", "Hi": two fragments, one chunk event. *)
C4_Witness ==
    /\ frags["c1"] = << <<"a">>, <<"a">> >>
    /\ deltas["c1"] = << <<"a">>, <<>> >>
    /\ Len(ChunkEvents("c1")) = 1
    /\ pc["c1"] = "send_done"
    /\ ~clientGone["c1"]

(* C5: the chunk and sources events of a turn carry the response id of the
   turn; the chunk ids of successive chunk events increase strictly and
   number the fragments (the chunk with id k carries the delta of the k-th
   fragment); a sources event has a chunk id above every chunk's; the
   response ids of the turns started are pairwise different. *)
C5_ResponseAndChunkIds ==
    LET evs == events["c1"]
        cs == ChunkEvents("c1")
    IN  /\ \A i \in 1..Len(evs) :
              evs[i].type \in {"chunk", "sources"} =>
                  /\ turnRids /= <<>>
                  /\ evs[i].response_id = turnRids[Len(turnRids)]
        /\ \A i \in 1..Len(cs) :
              /\ cs[i].chunk_id \in 1..Len(deltas["c1"])
              /\ cs[i].content = deltas["c1"][cs[i].chunk_id]
              /\ i > 1 => cs[i - 1].chunk_id < cs[i].chunk_id
        /\ \A i \in 1..Len(evs) :
              evs[i].type = "sources" =>
                  \A j \in 1..Len(cs) : cs[j].chunk_id < evs[i].chunk_id
        /\ \A i, j \in 1..Len(turnRids) : i /= j => turnRids[i] /= turnRids[j]

(* The second turn of the connection: chunks 1 and 3 (fragment 2 was
   suppressed), then the sources event with chunk id 4. *)
C5_Witness ==
    /\ Len(turnRids) = 2
    /\ Len(events["c1"]) = 3
    /\ events["c1"][1].type = "chunk" /\ events["c1"][1].chunk_id = 1
    /\ events["c1"][2].type = "chunk" /\ events["c1"][2].chunk_id = 3
    /\ events["c1"][3].type = "sources" /\ events["c1"][3].chunk_id = 4
    /\ events["c1"][3].response_id = events["c1"][1].response_id
    /\ deltas["c1"][2] = <<>>

(* C6: every stored history has at most 10 turns and is the tail of the
   turns appended to the session, in append order; from the 11th append on
   it has exactly 10. *)
C6_HistoryBound ==
    \A sid \in SessionIds :
        LET all == appended[sid]
            h == IF sid \in DOMAIN session_chat_history
                 THEN session_chat_history[sid] ELSE <<>>
        IN  /\ Len(h) <= 10
            /\ Len(h) <= Len(all)
            /\ Len(all) <= 10 => Len(h) = Len(all)
            /\ Len(all) >= 11 => Len(h) = 10
            /\ \A i \in 1..Len(h) : h[i] = all[Len(all) - Len(h) + i]

(* Eleven turns appended to one session, the first of them evicted. *)
C6_Witness ==
    /\ Len(appended["s1"]) = 11
    /\ Len(session_chat_history["s1"]) = 10
    /\ appended["s1"][1].role = "user"
    /\ session_chat_history["s1"][1] = appended["s1"][2]
    /\ appended["s1"][2].role = "assistant"

(* The GET of the handshake found the record: the session was validated. *)
Validated(c) == session_data[c] /= NoData

(* The handshake read a first message and refused it: it carried no
   session id, or the GET found no live record. *)
AuthRejected(c) == received[c] >= 1 /\ pc[c] /= "get" /\ session_data[c] = NoData

Live(sid) == Get(store, sid, now) /= NoData

(* C1: the events of a turn are chunks, then at most one sources event,
   then exactly one done event: nothing follows the done event, no chunk
   follows the sources event, and the handler of a validated connection
   whose client is still connected does not end while a non-empty chat
   message of that client is unanswered. *)
C1_TurnEvents ==
    LET evs == events["c1"]
    IN  /\ \A i, j \in 1..Len(evs) :
              i < j => /\ evs[i].type /= "done"
                       /\ evs[i].type = "sources" => evs[j].type = "done"
        /\ (/\ Validated("c1")
            /\ ~clientGone["c1"]
            /\ \E i \in 1..Len(inbox["c1"]) : GetMessage(inbox["c1"][i]) /= <<>>)
           => pc["c1"] /= "closed"

(* C7: once the handshake has validated the session and rewritten its
   record, and the client is still connected, auth_success has been sent
   and the connection is in Idle. *)
C7_AuthSuccessFollows ==
    (Validated("c1") /\ pc["c1"] /= "setex" /\ ~clientGone["c1"])
    => (pc["c1"] = "idle" /\ events["c1"] = <<AuthSuccess>>)

(* C8: a connection whose first message was refused is closed with code
   1008, has been sent no event, has read no second message and processed
   no chat message; the step that refuses it and every later step leave the
   session store as it is, but for logins and expiry. *)
C8_RejectedState ==
    AuthRejected("c1") =>
        /\ pc["c1"] = "closed"
        /\ closeCode["c1"] = POLICY_VIOLATION
        /\ events["c1"] = <<>>
        /\ received["c1"] = 1
        /\ MESSAGES_PROCESSED = 0

C8_RejectedStep ==
    AuthRejected("c1")' => (store' = store \/ lastOp'.op \in {"login", "tick"})

C8_AuthRejected == [](C8_RejectedState) /\ [][C8_RejectedStep]_vars

(* A session that was created and has expired is refused. *)
C8_Witness ==
    /\ AuthRejected("c1")
    /\ session_id["c1"] = "s1"
    /\ lastWrite["s1"] = 0
    /\ now = SESSION_TTL
    /\ closeCode["c1"] = POLICY_VIOLATION
    /\ pc["c1"] = "closed"

(* C9: a session validates exactly while less than 3600 seconds have passed
   since its most recent create or touch, and the outcome of each
   validation is that; so it validates right after login, and a touch gives
   it 3600 more seconds whatever was left. *)
C9_SlidingExpiry ==
    /\ \A sid \in SessionIds :
          Live(sid) <=> (lastWrite[sid] >= 0 /\ now - lastWrite[sid] < 3600)
    /\ (lastOp.op \in {"verify", "ws_validate"} /\ lastOp.sid \in SessionIds)
          => (lastOp.ok <=> (/\ lastWrite[lastOp.sid] >= 0
                             /\ now - lastWrite[lastOp.sid] < 3600))
    /\ lastOp.op = "login" => Live(lastOp.sid)

(* Created at 0 and touched at 3599 with one second left, the session
   still validates 3599 seconds after the touch. *)
C9_Witness ==
    /\ store["s1"].data.created_at = 0
    /\ lastWrite["s1"] = 3599
    /\ now = 7198
    /\ Live("s1")
    /\ lastOp = Op("verify", "s1", TRUE)

(* C10: a successful validation, by verify_session or by the websocket
   handshake once it has written, leaves the session record with a lifetime
   of 3600 seconds from that moment. *)
C10_ValidationRewrites ==
    (lastOp.op \in {"verify", "ws_touch"} /\ lastOp.ok)
    => store[lastOp.sid].expires = now + 3600

(* The last event sent to c since its last inbound message. *)
LastEvent(c) == events[c][Len(events[c])]

(* C11 as stated: every failure of a turn (every increment of the
   provider-error counter) sends an error event and leaves the connection
   in Idle. *)
C11_FailureIsolated ==
    [][AI_PROVIDER_ERRORS' /= AI_PROVIDER_ERRORS =>
          /\ pc'["c1"] = "idle"
          /\ events'["c1"] /= <<>>
          /\ events'["c1"][Len(events'["c1"])].type = "error"]_vars

(* C11, amended: every failure of a turn is counted once; while the client
   is connected it sends one error event, leaves the gauge alone and puts
   the connection back in Idle; the handler ends inside the loop only when
   the client has disconnected, and a failure then sends nothing. *)
C11_FailureStep ==
    AI_PROVIDER_ERRORS' /= AI_PROVIDER_ERRORS =>
        /\ AI_PROVIDER_ERRORS' = AI_PROVIDER_ERRORS + 1
        /\ IF clientGone["c1"]
           THEN /\ pc'["c1"] = "closed"
                /\ \A i \in 1..Len(events'["c1"]) : events'["c1"][i].type /= "error"
           ELSE /\ pc'["c1"] = "idle"
                /\ events'["c1"] = Append(events["c1"], ErrorEvent(received'["c1"]))
                /\ ACTIVE_WEBSOCKETS' = ACTIVE_WEBSOCKETS

C11_FailureState ==
    /\ pc["c1"] = "closed" => clientGone["c1"]
    /\ ("turn" \in logged["c1"] /\ pc["c1"] = "idle") => LastEvent("c1").type = "error"

C11_FailureIsolatedWhileConnected == [](C11_FailureState) /\ [][C11_FailureStep]_vars

(* The first turn failed; the second was processed and failed after its
   first chunk: two errors counted, the connection in Idle again. *)
C11_Witness ==
    /\ AI_PROVIDER_ERRORS = 2
    /\ received["c1"] = 2
    /\ Len(events["c1"]) = 2
    /\ events["c1"][1].type = "chunk"
    /\ events["c1"][2] = ErrorEvent(2)
    /\ pc["c1"] = "idle"
    /\ ~clientGone["c1"]
    /\ ACTIVE_WEBSOCKETS = Cardinality(Conns)

HasEvent(c, type) == \E i \in 1..Len(events[c]) : events[c][i].type = type

(* C12: once the stream of a turn has ended, whatever the number of deltas,
   the extraction step, whatever its outcome, sends no error event, counts
   no error and goes on to the completion message; that step, with the
   client connected, sends the done event; so a turn whose extraction
   raised (logged) ends with done and without error. *)
C12_ExtractStep ==
    (pc["c1"] = "extract" /\ pc'["c1"] /= "extract") =>
        /\ pc'["c1"] = "send_done"
        /\ AI_PROVIDER_ERRORS' = AI_PROVIDER_ERRORS
        /\ Len(events'["c1"]) \in {Len(events["c1"]), Len(events["c1"]) + 1}
        /\ \A i \in 1..Len(events'["c1"]) : events'["c1"][i].type \in {"chunk", "sources"}

C12_DoneStep ==
    (pc["c1"] = "send_done" /\ pc'["c1"] /= "send_done" /\ ~clientGone["c1"]) =>
        /\ events'["c1"] = Append(events["c1"], DoneEvent(received["c1"]))
        /\ pc'["c1"] = "idle"
        /\ AI_PROVIDER_ERRORS' = AI_PROVIDER_ERRORS

C12_DoneState ==
    ("extract" \in logged["c1"] /\ pc["c1"] = "idle") =>
        /\ LastEvent("c1") = DoneEvent(received["c1"])
        /\ ~HasEvent("c1", "error")
        /\ AI_PROVIDER_ERRORS = 0

C12_DoneAlways ==
    [](C12_DoneState) /\ [][C12_ExtractStep]_vars /\ [][C12_DoneStep]_vars

(* A turn without any delta whose extraction raised: done is the only
   event. *)
C12_Witness ==
    /\ received["c1"] = 1
    /\ SelectSeq(deltas["c1"], NonEmpty) = <<>>
    /\ frags["c1"] /= <<>>
    /\ logged["c1"] = {"extract"}
    /\ events["c1"] = <<DoneEvent(1)>>
    /\ pc["c1"] = "idle"

(* C13: the step that reads a chat message whose message field is empty or
   absent, the client being connected, sends one error event and nothing
   else, and leaves everything else as it was: the histories, the count of
   processed messages, the response ids drawn (no turn is started, the
   backend is not called), the error counter, the gauge; the connection
   stays in Idle. *)
C13_EmptyStep ==
    (/\ pc["c1"] = "idle"
     /\ received'["c1"] = received["c1"] + 1
     /\ Head(inbox["c1"]).message \in {<<>>, Absent}
     /\ ~clientGone["c1"])
    => /\ events'["c1"] = <<ErrorEvent(received'["c1"])>>
       /\ pc'["c1"] = "idle"
       /\ session_chat_history' = session_chat_history
       /\ appended' = appended
       /\ MESSAGES_PROCESSED' = MESSAGES_PROCESSED
       /\ nextRid' = nextRid
       /\ turnRids' = turnRids
       /\ AI_PROVIDER_ERRORS' = AI_PROVIDER_ERRORS
       /\ ACTIVE_WEBSOCKETS' = ACTIVE_WEBSOCKETS

C13_EmptyMessage == [][C13_EmptyStep]_vars

(* After a completed turn, a message without the message key: one error
   event, the history still the two turns, one message processed. *)
C13_Witness ==
    /\ received["c1"] = 2
    /\ inbox["c1"] = <<>>
    /\ sent = 2
    /\ events["c1"] = <<ErrorEvent(2)>>
    /\ "s1" \in DOMAIN session_chat_history
    /\ Len(session_chat_history["s1"]) = 2
    /\ session_chat_history["s1"][2].role = "assistant"
    /\ MESSAGES_PROCESSED = 1
    /\ nextRid = 1
    /\ AI_PROVIDER_ERRORS = 0
    /\ pc["c1"] = "idle"

Accepted == {c \in Conns : pc[c] /= "new"}
Ended == {c \in Conns : pc[c] = "closed"}

(* C14: the gauge of active connections is the number of connections
   accepted whose handler has not ended, whatever way each handler ended,
   and is never negative; every accepted connection was counted once. *)
C14_GaugeBalanced ==
    /\ ACTIVE_WEBSOCKETS = Cardinality(Accepted \ Ended)
    /\ ACTIVE_WEBSOCKETS >= 0
    /\ WEBSOCKET_CONNECTIONS = Cardinality(Accepted)

(* Both handlers have ended: one refused with 1008, the other after its
   session was validated. *)
C14_Witness ==
    /\ pc = [c \in Conns |-> "closed"]
    /\ closeCode["c1"] = POLICY_VIOLATION
    /\ closeCode["c2"] = 0
    /\ Validated("c2")
    /\ WEBSOCKET_CONNECTIONS = 2
    /\ ACTIVE_WEBSOCKETS = 0

(* The call got past the guard: it issued at least one request. *)
Requested == mcpReturn.requests /= <<>>

(* The legacy GET /tools came back with a body that parses to a list or a
   dict. *)
LegacySucceeded(get) ==
    get.status = 200 /\ Json(get.text).ok /\ Json(get.text).type \in {"dict", "list"}

(* C15: list_tools never raises; a call that reached the server and was
   answered 405 issued the POST and then GET /tools, and returned the
   parsed body of the GET, or the empty list when the GET failed; after
   any other error status, a transport error or a body that does not parse
   it issued the POST only and returned the empty list. *)
C15_ListToolsNeverRaises ==
    mcpReturn.op = "list_tools" =>
        LET post == mcpReturn.post
            get == mcpReturn.get
            value == mcpReturn.outcome.value
        IN  /\ ~mcpReturn.outcome.raised
            /\ value.kind \in {"list", "json"}
            /\ ~Requested => value = EmptyList
            /\ (Requested /\ post.status = 405) =>
                   /\ mcpReturn.requests =
                          <<Request("POST", <<"">>), Request("GET", <<"tools">>)>>
                   /\ value = IF LegacySucceeded(get) THEN Parsed(get.text) ELSE EmptyList
            /\ (Requested /\ post.status /= 405) =>
                   mcpReturn.requests = <<Request("POST", <<"">>)>>
            /\ (/\ Requested
                /\ \/ post.status \in {0, 500}
                   \/ post.status = 200 /\ post.text /= "" /\ ~Json(post.text).ok)
               => value = EmptyList

(* tools/list answered 405 and the legacy call answered the tool list. *)
C15_Witness ==
    /\ mcpReturn.op = "list_tools"
    /\ mcpReturn.post.status = 405
    /\ mcpReturn.get = Response(200, "application/json", "[\"t1\"]")
    /\ Len(mcpReturn.requests) = 2
    /\ mcpReturn.outcome = Return(Parsed("[\"t1\"]"))
    /\ mcpReturn.outcome.value.items = <<"t1">>

(* C16: close leaves the gateway not initialized, and a list_tools or
   call_tool on a configured gateway that was closed initializes it again
   and issues its request. *)
C16_ReinitializesAfterClose ==
    /\ mcpReturn.op = "close" => ~mcp_client.initialized
    /\ (/\ mcpReturn.op \in {"list_tools", "call_tool"}
        /\ mcpReturn.before.client = "closed"
        /\ ~Falsy(mcpReturn.before.base_url))
       => (mcp_client.initialized /\ Requested)

(* C17: call_tool never raises: it returns the parsed body of a POST that
   was answered 200 with a body that parses, and a value with an error
   field in every other case (gateway not configured or not initialized,
   error status, transport error, body that does not parse). *)
C17_CallToolNeverRaises ==
    mcpReturn.op = "call_tool" =>
        LET post == mcpReturn.post
            value == mcpReturn.outcome.value
            answered == Requested /\ post.status = 200 /\ Json(post.text).ok
        IN  /\ ~mcpReturn.outcome.raised
            /\ value.kind \in {"json", "error"}
            /\ Requested <=> (~Falsy(mcpReturn.before.base_url) /\ mcpReturn.before.initialized)
            /\ Requested => /\ Len(mcpReturn.requests) = 1
                            /\ mcpReturn.requests[1].method = "POST"
                            /\ mcpReturn.requests[1].path[2] \in ToolNames
            /\ answered => value = Parsed(post.text)
            /\ ~answered => value.kind = "error"

(* The POST of an initialized gateway met a transport error. *)
C17_Witness ==
    /\ mcpReturn.op = "call_tool"
    /\ mcpReturn.before.initialized
    /\ mcpReturn.post = TransportError
    /\ mcpReturn.requests = <<Request("POST", <<"tools", "search", "call">>)>>
    /\ mcpReturn.outcome = Return(ErrorValue("Error calling MCP tool"))

SourcesPayload == DictResponse(<<Pair("sources", ListField(<<DictItem("http://x", NoKey, "X")>>))>>)
LinksPayload == DictResponse(<<Pair("links", ListField(<<StrItem("http://y")>>))>>)
NoMatchPayload == DictResponse(<<Pair("text", StrField("hello"))>>)

(* C18: over one tool result, the extraction raises nothing; the payload
   {"sources":[{"url":"http://x","title":"X"}]} gives the one citation
   (X, http://x), the payload {"links":["http://y"]} the one citation
   http://y without title, and a payload without a matching field none. *)
C18_CitationExtraction ==
    (Len(tool_calls) = 1 /\ tool_calls[1].response.t = "dict") =>
        /\ ~sources_list.raised
        /\ tool_calls = <<ToolCall(SourcesPayload, NoKey)>> =>
               sources_list.entries = <<Link("X", "http://x")>>
        /\ tool_calls = <<ToolCall(LinksPayload, NoKey)>> =>
               sources_list.entries = <<Plain("http://y")>>
        /\ tool_calls = <<ToolCall(NoMatchPayload, NoKey)>> =>
               sources_list.entries = <<>>

(* The variant a model object belongs to, by its classes. *)
VariantOf(value) ==
    CASE value.items[1] = "AzureProvider" -> "azure"
      [] value.items[1] = "OpenRouterProvider" -> "openrouter"
      [] value.items[1] = "OpenAIProvider" -> "openai"
      [] value.doc = "AnthropicModel" -> "anthropic"
      [] OTHER -> "?"

(* The credentials the variant named by the settings needs are all set. *)
HasCredentials(st) ==
    CASE st.ai_provider = "azure" ->
             st.azure_openai_key = "k" /\ st.azure_openai_endpoint = "k"
      [] st.ai_provider = "openrouter" -> st.openrouter_api_key = "k"
      [] st.ai_provider = "openai" -> st.openai_api_key = "k"
      [] st.ai_provider = "anthropic" -> st.anthropic_api_key = "k"
      [] OTHER -> FALSE

(* C19: get_ai_model returns a model exactly when the provider named is one
   of the four variants and its credentials are set, and the model is then
   of that variant; otherwise it raises ValueError; the credentials of the
   other variants make no difference. *)
C19_NoFallback ==
    LET st == aiModel.settings
        outcome == aiModel.outcome
    IN  /\ ~outcome.raised <=> HasCredentials(st)
        /\ ~outcome.raised => (outcome.value.kind = "model"
                               /\ VariantOf(outcome.value) = st.ai_provider)
        /\ outcome.raised => outcome.exc = Exception("ValueError")

(* azure without its endpoint, the keys of all other variants set: the
   call raises. *)
C19_Witness ==
    /\ aiModel.settings = Settings("azure", "k", None, "k", "k", "k", None)
    /\ aiModel.outcome = Raise(Exception("ValueError"))
    /\ settings = aiModel.settings

(* The text of the chunk events sent for the turn, concatenated. *)
ChunkText(c) == Concat(ChunkContents(c))

(* C20: while the turn streams, the history ends with its user turn and no
   sources or done event has been sent; once the stream has ended, the
   history is that user turn followed by an assistant turn whose text is
   the concatenation of the chunk events of the turn (no assistant turn
   when that text is empty); the step that appends the assistant turn is
   the end of the stream, with only chunk events sent before it. *)
C20_HistoryState ==
    LET h == appended["s1"]
        completed == pc["c1"] \in {"extract", "send_done"} \/ HasEvent("c1", "done")
    IN  /\ pc["c1"] = "streaming" =>
               /\ Len(h) = 1 /\ h[1].role = "user"
               /\ ~HasEvent("c1", "sources") /\ ~HasEvent("c1", "done")
        /\ completed =>
               /\ h[1] = Turn("user", <<"a">>, now)
               /\ session_chat_history["s1"] = h
               /\ IF ChunkText("c1") = <<>>
                  THEN Len(h) = 1
                  ELSE Len(h) = 2 /\ h[2] = Turn("assistant", ChunkText("c1"), now)

C20_AppendStep ==
    (/\ Len(appended'["s1"]) = Len(appended["s1"]) + 1
     /\ appended'["s1"][Len(appended'["s1"])].role = "assistant")
    => /\ pc["c1"] = "streaming" /\ pc'["c1"] = "extract"
       /\ events'["c1"] = events["c1"]
       /\ \A i \in 1..Len(events["c1"]) : events["c1"][i].type = "chunk"

C20_AssistantTurnIsChunks == [](C20_HistoryState) /\ [][C20_AppendStep]_vars

(* Two cumulative fragments sent as the chunks "a" and "b": the assistant
   turn "ab" follows the user turn, and sources and done came after it. *)
C20_Witness ==
    /\ ChunkContents("c1") = << <<"a">>, <<"b">> >>
    /\ appended["s1"] = <<Turn("user", <<"a">>, 0), Turn("assistant", <<"a", "b">>, 0)>>
    /\ Len(events["c1"]) = 4
    /\ events["c1"][3].type = "sources"
    /\ events["c1"][4].type = "done"
    /\ pc["c1"] = "idle"

(* C21: on every connection the deltas of the current turn are determined
   by the fragments of that turn alone: the first delta is the first
   fragment in full, each later delta is computed from the fragment before
   it in the same turn, and two turns with the same fragments have the same
   deltas; the step that handles the first fragment of a turn sends it in
   full (unless it is empty), whatever earlier turns and the other
   connection have streamed. *)
C21_ScopedState ==
    /\ \A c \in Conns :
          LET fs == frags[c]
              ds == deltas[c]
          IN  /\ Len(ds) = Len(fs)
              /\ fs /= <<>> => ds[1] = fs[1]
              /\ \A i \in 2..Len(fs) : ds[i] = ComputeDelta(fs[i - 1], fs[i])
              /\ (pc[c] = "streaming" /\ fs = <<>>) => previous_content[c] = <<>>
    /\ \A c, d \in Conns : frags[c] = frags[d] => deltas[c] = deltas[d]

C21_FirstFragmentStep ==
    \A c \in Conns :
        (frags[c] = <<>> /\ Len(frags'[c]) = 1 /\ pc[c] = "streaming") =>
            /\ deltas'[c] = frags'[c]
            /\ (~clientGone[c] /\ frags'[c][1] /= <<>>) =>
                   /\ Len(events'[c]) = Len(events[c]) + 1
                   /\ events'[c][Len(events'[c])].type = "chunk"
                   /\ events'[c][Len(events'[c])].content = frags'[c][1]

C21_ReconcilerScopedToTurn == [](C21_ScopedState) /\ [][C21_FirstFragmentStep]_vars

(* Two turns stream side by side: one has streamed "a", the other's first
   fragment "ab" was sent in full. *)
C21_Witness ==
    /\ pc = [c \in Conns |-> "streaming"]
    /\ frags["c1"] = << <<"a">> >>
    /\ frags["c2"] = << <<"a", "b">> >>
    /\ deltas["c2"] = << <<"a", "b">> >>
    /\ ChunkContents("c2") = << <<"a", "b">> >>
    /\ response_id["c1"] /= response_id["c2"]

(* Both connections named session s1, found its record and have done
   their write. *)
BothTouched ==
    \A c \in Conns :
        session_id[c] = "s1" /\ Validated(c) /\ pc[c] \notin {"get", "setex"}

(* While the record of s1 is in the store after both writes: it has the
   session_id and the created_at both connections read, its last_activity
   is the one a connection wrote, its lifetime is 3600 s from the last
   write. *)
RaceRecord ==
    (BothTouched /\ store["s1"] /= NoRecord) =>
        /\ store["s1"].data.session_id = "s1"
        /\ \A c \in Conns : store["s1"].data.created_at = session_data[c].created_at
        /\ \E c \in Conns : store["s1"].data = session_data[c]
        /\ store["s1"].expires = lastWrite["s1"] + SESSION_TTL

(* C22: when both connections have authenticated with the same live
   session id, in whatever order their reads and writes fell, both are
   authenticated (auth_success sent, in Idle) and the record is as
   RaceRecord says. *)
C22_ConcurrentAuth ==
    /\ BothTouched => \A c \in Conns : pc[c] = "idle" /\ events[c] = <<AuthSuccess>>
    /\ RaceRecord

(* C23: initialize() on an initialized gateway changes no field and keeps
   the client it has (no new one is constructed); on a gateway without an
   endpoint it constructs no client and leaves the gateway not initialized;
   after any sequence of initialize, list_tools, call_tool, close and
   is_configured calls an initialized gateway has a client object; and
   is_configured() returns True exactly when MCP_HTTP_URL is set and not
   empty. *)
C23_InitializeIdempotent ==
    /\ (mcpReturn.op = "initialize" /\ mcpReturn.before.initialized)
           => mcp_client = mcpReturn.before
    /\ (mcpReturn.op = "initialize" /\ settings.mcp_http_url \in {None, ""})
           => /\ mcp_client = mcpReturn.before
              /\ mcp_client.client = "None"
              /\ ~mcp_client.initialized
              /\ mcp_client.built = 0
    /\ mcp_client.initialized => mcp_client.client = "open" /\ mcp_client.built > 0
    /\ mcpReturn.op = "is_configured"
           => mcpReturn.outcome = Return(Bool(settings.mcp_http_url \notin {None, ""}))

(* initialize() called on a gateway that is initialized with its second
   client, the first one having been closed. *)
C23_Witness ==
    /\ mcpReturn.op = "initialize"
    /\ mcpReturn.before.initialized
    /\ mcpReturn.before.built = MaxBuilt
    /\ mcp_client.initialized

(* The rendered text read back as lines: the positions of its line breaks,
   the number of its lines and its n-th line. *)
Breaks(text) == {i \in 1..Len(text) : text[i] = "\n"}

LineCount(text) == IF text = <<>> THEN 0 ELSE Cardinality(Breaks(text)) + 1

NthBreak(text, n) ==
    IF n = 0 THEN 0
    ELSE IF n > Cardinality(Breaks(text)) THEN Len(text) + 1
    ELSE CHOOSE i \in Breaks(text) : Cardinality({j \in Breaks(text) : j <= i}) = n

NthLine(text, n) == SubSeq(text, NthBreak(text, n - 1) + 1, NthBreak(text, n) - 1)

(* The line the claim gives for a stored turn. *)
ShownContent(content) ==
    IF Len(content) <= 200 THEN content
    ELSE SubSeq(content, 1, 200) \o <<".", ".", ".">>

ExpectedLine(turn) ==
    IF turn.role = "user"
    THEN <<"U", "s", "e", "r", ":", " ">> \o ShownContent(turn.content)
    ELSE <<"A", "s", "s", "i", "s", "t", "a", "n", "t", ":", " ">>
             \o ShownContent(turn.content)

StoredTurns(sid) ==
    IF sid \in DOMAIN session_chat_history THEN session_chat_history[sid] ELSE <<>>

C24_Rendering ==
    \A sid \in SessionIds :
        LET text == get_chat_history_context(session_chat_history, sid)
            turns == StoredTurns(sid)
        IN  /\ LineCount(text) = Len(turns)
            /\ LineCount(text) <= 10
            /\ \A i \in 1..Len(turns) : NthLine(text, i) = ExpectedLine(turns[i])
            /\ turns = <<>> => text = <<>>
            /\ turns = LastN(appended[sid], 10)

C24_RenderStep ==
    \A c \in Conns :
        memory_context'[c] /= memory_context[c] =>
            /\ \E sid \in SessionIds :
                   memory_context'[c] = get_chat_history_context(session_chat_history', sid)
            /\ \A sid \in SessionIds :
                   \/ StoredTurns(sid)' = StoredTurns(sid)
                   \/ /\ pc[c] = "idle"
                      /\ sid = session_id[c]
                      /\ StoredTurns(sid)' = LastN(Append(StoredTurns(sid),
                                                       appended'[sid][Len(appended'[sid])]), 10)

(* C24: get_chat_history_context renders one line per stored turn, in
   stored order and at most 10 of them, each "User: " or "Assistant: "
   followed by the turn's content, whole when it has 200 characters or
   fewer and else cut to its first 200 characters plus "..."; the stored
   turns are the last 10 appended, with their contents whole, the call
   leaves them as they are (in the message loop it follows the append of
   the user turn), and the text is empty for a session without history.
   Contents have no line breaks. *)
C24_ContextRendering == [](C24_Rendering) /\ [][C24_RenderStep]_vars

(* The context of s1 has been rendered into ten lines, the session having
   had more than ten turns, with a content of 201 characters shown cut and
   one of 200 characters shown whole. *)
C24_Witness ==
    /\ Len(appended["s1"]) > 10
    /\ memory_context["c1"] = get_chat_history_context(session_chat_history, "s1")
    /\ LineCount(memory_context["c1"]) = 10
    /\ \E i, j \in 1..10 :
           /\ Len(session_chat_history["s1"][i].content) = 201
           /\ session_chat_history["s1"][i].role = "user"
           /\ Len(NthLine(memory_context["c1"], i)) = 6 + 203
           /\ Len(session_chat_history["s1"][j].content) = 200
           /\ session_chat_history["s1"][j].role = "assistant"
           /\ Len(NthLine(memory_context["c1"], j)) = 11 + 200

(* C25: a session record enters the store only by login, for an id never
   used before: no step of the websocket handler writes a record under a
   key the store does not hold, in particular not under the key of a
   record that expired after the handler's GET. *)
C25_OnlyLoginCreates ==
    [][\A s \in SessionIds :
          (store[s] = NoRecord /\ store'[s] /= NoRecord) =>
              (lastOp'.op = "login" /\ lastWrite[s] = -1)]_vars

C26_TurnStep ==
    ticks' = ticks =>
        /\ store' = store
        /\ lastWrite' = lastWrite
        /\ lastOp' = lastOp
        /\ now' = now
        /\ \A c \in Conns :
              (/\ store[session_id[c]] = NoRecord
               /\ received'[c] = received[c] + 1
               /\ GetMessage(Head(inbox[c])) /= <<>>) => pc'[c] = "streaming"

C26_TurnState == \A c \in Conns : pc[c] = "closed" => clientGone[c]

(* C26: no step of the message loop reads or writes the session store:
   every step of a turn leaves the record, its expiry time and the clock
   as they are; a message received after the record has expired starts a
   turn like any other, and the handler ends only when its client has
   gone. *)
C26_TurnsLeaveSession == [](C26_TurnState) /\ [][C26_TurnStep]_vars

(* The session record has expired, and a turn whose message arrived after
   the expiry has been answered to its done event. *)
C26_Witness ==
    /\ store["s1"] = NoRecord
    /\ now >= SESSION_TTL
    /\ pc["c1"] = "idle"
    /\ events["c1"] /= <<>>
    /\ LastEvent("c1").type = "done"
    /\ \E i \in 1..Len(appended["s1"]) :
           /\ appended["s1"][i].role = "user"
           /\ appended["s1"][i].timestamp >= SESSION_TTL
    /\ appended["s1"][Len(appended["s1"])].role = "assistant"

(* A step in which a turn whose message was accepted fails. *)
AcceptedTurnFails(c) ==
    /\ pc[c] \in {"streaming", "extract", "send_done"}
    /\ AI_PROVIDER_ERRORS' /= AI_PROVIDER_ERRORS

LastTurn(sid) == StoredTurns(sid)[Len(StoredTurns(sid))]

(* C27 as stated: whenever a turn fails after its message was accepted, the
   history is left ending with that turn's user turn. *)
C27_FailedTurnHasNoAssistantTurn ==
    [][\A c \in Conns :
          AcceptedTurnFails(c) =>
              /\ session_chat_history' = session_chat_history
              /\ LastTurn(session_id[c]).role = "user"]_vars

C27_FailStep ==
    \A c \in Conns :
        AcceptedTurnFails(c) =>
            /\ session_chat_history' = session_chat_history
            /\ appended' = appended
            /\ \E i \in 1..Len(StoredTurns(session_id[c])) :
                   StoredTurns(session_id[c])[i].role = "user"
            /\ pc[c] = "streaming" => LastTurn(session_id[c]).role = "user"

C27_NextTurnStep ==
    \A c \in Conns :
        (/\ pc[c] = "idle"
         /\ "turn" \in logged[c]
         /\ pc'[c] = "streaming") =>
            LET failed == LastTurn(session_id[c])
                text == memory_context'[c]
                n == LineCount(text)
            IN  /\ failed.role = "user"
                /\ LastTurn(session_id[c])' = Turn("user", GetMessage(Head(inbox[c])), now)
                /\ n >= 2
                /\ NthLine(text, n - 1) = <<"U", "s", "e", "r", ":", " ">> \o failed.content
                /\ NthLine(text, n) =
                       <<"U", "s", "e", "r", ":", " ">> \o GetMessage(Head(inbox[c]))

(* C27, amended: a failure of a turn never changes the history, which
   holds the turn's user message from before the backend was invoked; when
   the turn fails before its stream has ended (the backend raises, or the
   send of a chunk fails) the history ends with that user turn and holds no
   assistant turn for it, and the next turn of the connection appends its
   user turn right after it and renders both into its context. A turn that
   fails later, at the send of done, has its assistant turn stored. *)
C27_FailedStreamKeepsUserTurn == [][C27_FailStep /\ C27_NextTurnStep]_vars

(* The first turn failed in its stream, the second has started: the
   history is two user turns and the context shows both. *)
C27_Witness ==
    /\ received["c1"] = 2
    /\ pc["c1"] = "streaming"
    /\ AI_PROVIDER_ERRORS = 1
    /\ ~clientGone["c1"]
    /\ Len(session_chat_history["s1"]) = 2
    /\ \A i \in 1..2 : session_chat_history["s1"][i].role = "user"
    /\ LineCount(memory_context["c1"]) = 2
    /\ NthLine(memory_context["c1"], 1) = <<"U", "s", "e", "r", ":", " ", "a">>

C28_DisconnectStep ==
    \A c \in Conns :
        /\ clientGone'[c] /= clientGone[c] =>
              /\ pc' = pc
              /\ UNCHANGED <<metricVars, memoryVars, turnVars, events, received>>
        /\ (clientGone[c] /\ AI_PROVIDER_ERRORS' /= AI_PROVIDER_ERRORS) =>
              /\ AI_PROVIDER_ERRORS' = AI_PROVIDER_ERRORS + 1
              /\ "turn" \in logged'[c]
              /\ \A i \in 1..Len(events'[c]) : events'[c][i].type /= "error"
              /\ pc'[c] = "closed"
              /\ ACTIVE_WEBSOCKETS' = ACTIVE_WEBSOCKETS - 1
        /\ (clientGone[c] /\ pc[c] = "streaming" /\ frags'[c] /= frags[c]) =>
              IF deltas'[c][Len(deltas'[c])] = <<>>
              THEN pc'[c] = "streaming" /\ AI_PROVIDER_ERRORS' = AI_PROVIDER_ERRORS
              ELSE pc'[c] = "closed" /\ AI_PROVIDER_ERRORS' = AI_PROVIDER_ERRORS + 1
        /\ pc[c] = "closed" =>
              /\ pc'[c] = "closed"
              /\ received'[c] = received[c]
              /\ UNCHANGED <<metricVars, memoryVars, turnVars, events>>

C28_DisconnectState ==
    pc["c1"] = "closed" =>
        /\ clientGone["c1"]
        /\ ACTIVE_WEBSOCKETS = Cardinality(Conns) - 1

(* C28: the disconnect of a client changes nothing in the handler; the
   stream of the turn goes on consuming fragments as long as none of them
   has to be sent; the first send after the disconnect fails, the failure
   is counted once and logged, no error event gets out, the handler ends
   with the gauge decremented once, and a closed handler receives no
   further message and changes no counter, history or local. *)
C28_DisconnectEndsHandler == [](C28_DisconnectState) /\ [][C28_DisconnectStep]_vars

(* The client sent a second message and disconnected during the first
   turn; the stream went on through a fragment that needed no send, the
   next send failed, and the handler ended with the second message
   unread. *)
C28_Witness ==
    /\ pc["c1"] = "closed"
    /\ clientGone["c1"]
    /\ received["c1"] = 1
    /\ inbox["c1"] /= <<>>
    /\ AI_PROVIDER_ERRORS = 1
    /\ ACTIVE_WEBSOCKETS = Cardinality(Conns) - 1
    /\ events["c1"] = <<>>
    /\ Len(deltas["c1"]) = 2
    /\ deltas["c1"][1] = <<>>
    /\ deltas["c1"][2] /= <<>>

====
